---- MODULE Spec2Model ----
(***************************************************************************)
(* Audio-generation fallback pipeline of voice_ai_generator_backend.       *)
(*                                                                         *)
(*   - the chunker splitTextIntoChunks of the local-file audio service     *)
(*     (src/unnamed/part_000), on strings modelled as sequences of         *)
(*     one-character strings;                                              *)
(*   - generateAudio of that service, run by concurrent requests that      *)
(*     share the uploads/audio/temp directory;                             *)
(*   - generateTikTokVoice of the first AudioService class of              *)
(*     src/src/services/cloudinaryAudioService.js;                         *)
(*   - the generateAudio controller with the per-user audio quota.         *)
(***************************************************************************)
EXTENDS Integers, Sequences, FiniteSets, TLC

\* ------------------------------------------------------------------ bounds
\* longest text handed to the chunker in ChunkSpec
MaxTextLen == 6
\* largest maxLength handed to the chunker in ChunkSpec
MaxChunkLen == 3
\* most sentences in a text handed to generateAudio
MaxSentences == 2
\* characters in each sentence of such a text
SentenceLen == 200
\* how far below the monthly limit a user's usage count starts
MaxHeadroom == 1
\* last instant of the model clock
MaxTime == 2
\* the instant at which a paid subscription expires
ExpiryAt == 1
\* strategy attempts made one after the other
MaxAttempts == 2
\* longest text handed to cleanTextForTTS in CleanSpec
MaxCleanLen == 4
\* most sentences of a text handed to the cut at maxLength in TruncSpec
MaxTruncSentences == 2
\* most generations counted in one behaviour of SubSpec
MaxGrants == 2
\* most calls of KeepAliveService.start that schedule tasks in KeepSpec
MaxStarts == 2

\* ------------------------------------------------------- program constants
\* generateWithTikTokTTS: this.splitTextIntoChunks(text, 280)
TikTokChunkLen == 280
\* createMinimalMP3: const frameSize = 144
FrameSize == 144
\* createValidMP3: Math.max(5, ...) and createMinimalMP3(5)
MinSilentSeconds == 5
\* createValidMP3: Math.ceil(text.length / 15)
CharsPerSecond == 15

\* generateAudio (cloudinaryAudioService.js): cleanText.length < 10 is refused
MinTextChars == 10
\* generateAudio (cloudinaryAudioService.js): cleanText.length > 10000 is refused
MaxTextChars == 10000
\* createSilentWav: const sampleRate = 44100
SampleRate == 44100
\* createSilentWav: const numChannels = 1
NumChannels == 1
\* createSilentWav: const bitsPerSample = 16
BitsPerSample == 16
\* createSilentWav: Buffer.alloc(44)
HeaderSize == 44

\* ------------------------------------------------------------ text helpers
Alphabet == {"a", " ", "."}

Terminators == {".", "!", "?"}

Min(S) == CHOOSE x \in S : \A y \in S : x <= y

Max(S) == CHOOSE x \in S : \A y \in S : x >= y

\* the k-th smallest element of a finite set of integers
Nth(S, k) == CHOOSE x \in S : Cardinality({y \in S : y <= x}) = k

\* String.prototype.trim
Trim(s) ==
  LET keep == {i \in 1..Len(s) : s[i] # " "}
  IN IF keep = {} THEN <<>> ELSE SubSeq(s, Min(keep), Max(keep))

\* text.split(/[.!?]+/): the pieces between maximal runs of terminators,
\* the (possibly empty) pieces before the first and after the last included
SplitSentences(s) ==
  LET n == Len(s)
      starts == {i \in 1..n : s[i] \in Terminators
                              /\ (i = 1 \/ s[i - 1] \notin Terminators)}
      ends == {i \in 1..n : s[i] \in Terminators
                            /\ (i = n \/ s[i + 1] \notin Terminators)}
      r == Cardinality(starts)
  IN [j \in 1..(r + 1) |->
        SubSeq(s, IF j = 1 THEN 1 ELSE Nth(ends, j - 1) + 1,
                  IF j = r + 1 THEN n ELSE Nth(starts, j) - 1)]

\* sentence.split(" "): one piece per single space, empty pieces included
SplitWords(s) ==
  LET n == Len(s)
      sp == {i \in 1..n : s[i] = " "}
      r == Cardinality(sp)
  IN [j \in 1..(r + 1) |->
        SubSeq(s, IF j = 1 THEN 1 ELSE Nth(sp, j - 1) + 1,
                  IF j = r + 1 THEN n ELSE Nth(sp, j) - 1)]

\* Array.prototype.filter
RECURSIVE SelectNonBlank(_)
SelectNonBlank(ss) ==
  IF ss = <<>> THEN <<>>
  ELSE IF Len(Trim(Head(ss))) > 0
       THEN <<Head(ss)>> \o SelectNonBlank(Tail(ss))
       ELSE SelectNonBlank(Tail(ss))

\* ---------------------------------------------------------------- chunker
\* the word loop of splitTextIntoChunks; yields the chunks and the wordChunk
\* left over after the last word
RECURSIVE PackWords(_, _, _, _)
PackWords(words, maxLength, chunks, wordChunk) ==
  IF words = <<>> THEN [chunks |-> chunks, wordChunk |-> wordChunk]
  ELSE
    LET word == Head(words)
        proposedWordChunk ==
          IF wordChunk # <<>> THEN wordChunk \o <<" ">> \o word ELSE word
    IN IF Len(proposedWordChunk) <= maxLength
       THEN PackWords(Tail(words), maxLength, chunks, proposedWordChunk)
       ELSE IF wordChunk # <<>>
            THEN PackWords(Tail(words), maxLength,
                           Append(chunks, wordChunk \o <<".">>), word)
            ELSE PackWords(Tail(words), maxLength,
                           Append(chunks, word \o <<".">>), <<>>)

\* the sentence loop of splitTextIntoChunks; yields the chunks and the
\* currentChunk left over after the last sentence
RECURSIVE PackSentences(_, _, _, _)
PackSentences(sentences, maxLength, chunks, currentChunk) ==
  IF sentences = <<>> THEN [chunks |-> chunks, currentChunk |-> currentChunk]
  ELSE
    LET trimmedSentence == Trim(Head(sentences))
        proposedChunk ==
          IF currentChunk # <<>>
          THEN currentChunk \o <<".", " ">> \o trimmedSentence
          ELSE trimmedSentence
    IN IF trimmedSentence = <<>>
       THEN PackSentences(Tail(sentences), maxLength, chunks, currentChunk)
       ELSE IF Len(proposedChunk) <= maxLength
       THEN PackSentences(Tail(sentences), maxLength, chunks, proposedChunk)
       ELSE IF currentChunk # <<>>
       THEN PackSentences(Tail(sentences), maxLength,
                          Append(chunks, currentChunk \o <<".">>),
                          trimmedSentence)
       ELSE LET w == PackWords(SplitWords(trimmedSentence), maxLength,
                               chunks, <<>>)
            IN PackSentences(Tail(sentences), maxLength, w.chunks,
                             IF w.wordChunk # <<>> THEN w.wordChunk
                             ELSE currentChunk)

\* a variant without the [text] default for an empty chunk list
splitWithoutDefault(text, maxLength) ==
  LET sentences == SelectNonBlank(SplitSentences(text))
      p == PackSentences(sentences, maxLength, <<>>, <<>>)
  IN IF p.currentChunk # <<>>
     THEN Append(p.chunks, p.currentChunk \o <<".">>)
     ELSE p.chunks

splitTextIntoChunks(text, maxLength) ==
  LET sentences == SelectNonBlank(SplitSentences(text))
      p == PackSentences(sentences, maxLength, <<>>, <<>>)
      chunks == IF p.currentChunk # <<>>
                THEN Append(p.chunks, p.currentChunk \o <<".">>)
                ELSE p.chunks
  IN IF Len(chunks) > 0 THEN chunks ELSE <<text>>

\* ------------------------------------------------------------------ state
Reqs == {"r1", "r2"}

VARIABLES
  chText,        \* chunker: the text argument
  chMax,         \* chunker: the maxLength argument
  chChunks,      \* chunker: the returned chunks
  chPc,          \* chunker: "input" before the call, "split" after it
  platform,      \* process.platform
  tempDir,       \* whether uploads/audio/temp exists
  chunkFiles,    \* temp/chunk_<i>.mp3: <<>> when absent, <<content>> otherwise
  concatFile,    \* temp/concat.txt, likewise; its content is the list of chunk indices
  combinedFile,  \* temp/combined.mp3, likewise
  lpc,           \* per request: where its generateAudio call stands
  nSent,         \* per request: sentences of its cleaned text
  nChunks,       \* per request: chunks.length in generateWithTikTokTTS
  li,            \* per request: the loop index i of the loop it is in
  audioBuffers,  \* per request: audioBuffers of generateWithTikTokTTS
  audioData,     \* per request: audioData of generateAudio (combinedBuffer while combining)
  tried,         \* per request: the strategy calls generateAudio made, in order, with their outcome
  failedAt,      \* per request: 1-based chunk at which TikTok TTS threw, 0 if none
  lOutcome,      \* per request: "none", "ok" (result returned) or "error" (thrown)
  fileSize,      \* per request: stats.size of the file written
  cpc,             \* generateTikTokVoice: where the call stands
  cTextLen,        \* generateTikTokVoice: cleanText.length
  cFile,           \* the file at tempFilePath: <<>> when absent, <<[wav, bytes]>> otherwise
  cInvoked,        \* the top-level strategy calls made, in order, with their outcome
  audioGenerated,  \* generateTikTokVoice: audioGenerated
  generationMethod,\* generateTikTokVoice: generationMethod
  wavFault,        \* whether a write of createSilentWav was rejected by the file system
  uploadResult,    \* <<>> before the upload, <<[url, bytes]>> after it
  tempFilePath,    \* FALSE once generateTikTokVoice set tempFilePath = null
  handedSize,      \* <<>>, or <<n>>: size of the file at the moment it was handed to the upload
  cOutcome,        \* "none", "ok" (result returned) or "error" (thrown)
  dbUser,          \* the user document in the database
  usage0,          \* usageCount.audio of that user before any request
  now,             \* the clock, in model time units
  qpc,             \* per HTTP request: where the request stands
  hasToken,        \* per HTTP request: whether it carries a valid bearer token
  contentOk,       \* per HTTP request: whether its body passes the validations
  reqUser,         \* per HTTP request: req.user, <<>> or <<document copy>>
  qStatus,         \* per HTTP request: the HTTP status sent, 0 before
  svcCalls,        \* per HTTP request: calls of audioService.generateAudio
  saved,           \* per HTTP request: whether its AudioGeneration record was saved
  usageCurrent,    \* per HTTP request: usage.current of its response, 0 if none
  wavCaller,       \* silent WAV: who calls createSilentWav ("direct": a caller passing whole seconds)
  wavArg,          \* silent WAV: text.length of the caller's text, or the whole seconds passed
  wavDur,          \* silent WAV: <<>>, or <<durationSeconds>> as passed to createSilentWav
  wavFile,         \* silent WAV: <<>>, or <<the file written at outputPath>>
  wavPc,           \* silent WAV: "input", "written" or "failed"
  wpc,             \* generateEnhancedWebTTS: where the call stands
  wLen,            \* generateEnhancedWebTTS: text.length
  wAttempt,        \* generateEnhancedWebTTS: attempt of the gTTS retry loop
  wLog,            \* generateEnhancedWebTTS: the attempts, waits and returns so far, in order
  wFile,           \* generateEnhancedWebTTS: <<>>, or <<size of the file at outputPath>>
  wExec,           \* generateEnhancedWebTTS: <<>>, or <<the child process awaited>>
  wOutcome,        \* generateEnhancedWebTTS: "none", "ok" (returned true) or "error" (thrown)
  narratorDir,     \* narrator-audio: the names of its files, or <<>> when readdir fails
  ppc,             \* second generateTikTokVoice: where the call stands
  pTried,          \* second generateTikTokVoice: the strategies invoked so far, in order
  pFile,           \* second generateTikTokVoice: <<>>, or <<what is at tempFilePath>>
  pMethod,         \* second generateTikTokVoice: generationMethod
  pOutcome,        \* second generateTikTokVoice: "none", "ok" (returned) or "error" (thrown)
  aFn,             \* strategy attempt: the function called
  apc,             \* strategy attempt: where the call stands
  aux,             \* strategy attempt: its auxiliary temporary files now on disk
  aCalls,          \* strategy attempt: how many attempts were started
  aEnd,            \* strategy attempt: "none", "returned", "failed" (returned false) or "threw"
  gaInput,         \* generateAudio of the cloud service: <<>>, or <<its text argument>>
  clText,          \* cleanTextForTTS: the text argument
  clLang,          \* cleanTextForTTS: the language argument
  clImpl,          \* cleanTextForTTS: "cloud" (cloudinaryAudioService.js) or "local" (part_000)
  clOut,           \* cleanTextForTTS: the results of applying it once, then again
  trText,          \* cleanTextForTTS of part_000: cleanText when maxLength is computed, as runs
  trLang,          \* cleanTextForTTS of part_000: the language argument
  trOut,           \* cleanTextForTTS of part_000: <<>>, or <<the text returned>>
  sUser,           \* subscription lifecycle: the user document in the database
  sNow,            \* subscription lifecycle: the clock, in months
  sLast,           \* subscription lifecycle: the route and the status of the last answer
  sTurn,           \* subscription lifecycle: parity of the number of requests answered
  sGrants,         \* subscription lifecycle: how many generations were counted so far
  isRunning,       \* KeepAliveService: this.isRunning
  scheduledTask,   \* KeepAliveService: this.scheduledTask, <<>> for null or <<task id>>
  activeTasks,     \* node-cron: the scheduled tasks that have not been destroyed
  tasksCreated,    \* node-cron: how many tasks cron.schedule has created
  utcHour,         \* the clock: hour of the day, UTC
  utcMinute,       \* the clock: minute of the hour, a multiple of 5
  pinged           \* KeepAliveService: a health ping was issued since stop() last returned

chunkVars == <<chText, chMax, chChunks, chPc>>

tempVars == <<tempDir, chunkFiles, concatFile, combinedFile>>

reqVars == <<lpc, nSent, nChunks, li, audioBuffers, audioData, tried, failedAt,
             lOutcome, fileSize>>

localVars == <<platform, tempVars, reqVars>>

cloudVars == <<cpc, cTextLen, cFile, cInvoked, audioGenerated, generationMethod,
               wavFault, uploadResult, tempFilePath, handedSize, cOutcome>>

quotaVars == <<dbUser, usage0, now, qpc, hasToken, contentOk, reqUser,
               qStatus, svcCalls, saved, usageCurrent>>

wavVars == <<wavCaller, wavArg, wavDur, wavFile, wavPc>>

webVars == <<wpc, wLen, wAttempt, wLog, wFile, wExec, wOutcome>>

preVars == <<narratorDir, ppc, pTried, pFile, pMethod, pOutcome>>

auxVars == <<aFn, apc, aux, aCalls, aEnd>>

gaVars == <<gaInput>>

cleanVars == <<clText, clLang, clImpl, clOut>>

truncVars == <<trText, trLang, trOut>>

subVars == <<sUser, sNow, sLast, sTurn, sGrants>>

keepVars == <<isRunning, scheduledTask, activeTasks, tasksCreated, utcHour, utcMinute, pinged>>

vars == <<chunkVars, localVars, cloudVars, quotaVars, wavVars, webVars, preVars, auxVars, gaVars, cleanVars, truncVars, subVars, keepVars>>

nonChunk == <<localVars, cloudVars, quotaVars, wavVars, webVars, preVars, auxVars, gaVars, cleanVars, truncVars, subVars, keepVars>>

nonLocal == <<chunkVars, cloudVars, quotaVars, wavVars, webVars, preVars, auxVars, gaVars, cleanVars, truncVars, subVars, keepVars>>

nonCloud == <<chunkVars, localVars, quotaVars, wavVars, webVars, preVars, auxVars, gaVars, cleanVars, truncVars, subVars, keepVars>>

nonQuota == <<chunkVars, localVars, cloudVars, wavVars, webVars, preVars, auxVars, gaVars, cleanVars, truncVars, subVars, keepVars>>

nonWav == <<chunkVars, localVars, cloudVars, quotaVars, webVars, preVars, auxVars, gaVars, cleanVars, truncVars, subVars, keepVars>>

nonWeb == <<chunkVars, localVars, cloudVars, quotaVars, wavVars, preVars, auxVars, gaVars, cleanVars, truncVars, subVars, keepVars>>

nonPre == <<chunkVars, localVars, cloudVars, quotaVars, wavVars, webVars, auxVars, gaVars, cleanVars, truncVars, subVars, keepVars>>

nonAux == <<chunkVars, localVars, cloudVars, quotaVars, wavVars, webVars, preVars, gaVars, cleanVars, truncVars, subVars, keepVars>>

nonCloudGa == <<chunkVars, localVars, quotaVars, wavVars, webVars, preVars, auxVars, cleanVars, truncVars, subVars, keepVars>>

nonClean == <<chunkVars, localVars, cloudVars, quotaVars, wavVars, webVars, preVars,
              auxVars, gaVars, truncVars, subVars, keepVars>>

nonTrunc == <<chunkVars, localVars, cloudVars, quotaVars, wavVars, webVars, preVars,
              auxVars, gaVars, cleanVars,
              subVars, keepVars>>

nonSub == <<chunkVars, localVars, cloudVars, quotaVars, wavVars, webVars, preVars,
            auxVars, gaVars, cleanVars, truncVars,
            keepVars>>

nonKeep == <<chunkVars, localVars, cloudVars, quotaVars, wavVars, webVars, preVars,
             auxVars, gaVars, cleanVars, truncVars, subVars>>

\* ------------------------------------------------------- chunker as a call
RECURSIVE SeqsUpTo(_)
SeqsUpTo(n) ==
  IF n = 0 THEN {<<>>}
  ELSE LET shorter == SeqsUpTo(n - 1)
       IN shorter \cup {Append(s, c) : s \in {t \in shorter : Len(t) = n - 1},
                                       c \in Alphabet}

ChunkInit ==
  /\ chText \in SeqsUpTo(MaxTextLen)
  /\ chMax \in 1..MaxChunkLen
  /\ chChunks = <<>>
  /\ chPc = "input"

ChunkIdle ==
  /\ chText = <<>>
  /\ chMax = 1
  /\ chChunks = <<>>
  /\ chPc = "input"

SplitCall ==
  /\ chPc = "input"
  /\ chChunks' = splitTextIntoChunks(chText, chMax)
  /\ chPc' = "split"
  /\ UNCHANGED <<chText, chMax>>
  /\ UNCHANGED nonChunk

\* ------------------------------------------ local-file service (part_000)
\* one stretch of audio: who produced it, for which request and chunk, and
\* how many bytes it has
Piece(src, r, i, b) == [src |-> src, req |-> r, idx |-> i, bytes |-> b]

\* one completed strategy call
Call(name, ok) == [name |-> name, ok |-> ok]

\* decoded sizes of the v_str a TikTok response can carry (any non-empty
\* string passes the check of line 271; "=" decodes to no byte at all)
TikTokSizes == {0, 4096}

\* size of the audio `say` and ffmpeg write
ToolSizes == {8192}

\* the cleaned text of k sentences: "aaa. aaa. aaa."
TextOf(k) ==
  [i \in 1..(IF k = 0 THEN 0 ELSE k * (SentenceLen + 2) - 1) |->
     LET p == ((i - 1) % (SentenceLen + 2)) + 1
     IN IF p <= SentenceLen THEN "a" ELSE IF p = SentenceLen + 1 THEN "." ELSE " "]

\* Math.ceil(a / b) for positive integers
CeilDiv(a, b) == (a + b - 1) \div b

\* createMinimalMP3(duration).length: frameSize * Math.ceil(duration * 38.28)
createMinimalMP3(duration) == FrameSize * CeilDiv(duration * 3828, 100)

\* the duration createValidMP3 computes from the text
SilentDuration(text) ==
  LET d == CeilDiv(Len(text), CharsPerSecond)
  IN IF d > MinSilentSeconds THEN d ELSE MinSilentSeconds

\* Buffer.concat
RECURSIVE BufferConcat(_)
BufferConcat(bufs) ==
  IF bufs = <<>> THEN <<>> ELSE Head(bufs) \o BufferConcat(Tail(bufs))

\* buffer.length
RECURSIVE ByteLength(_)
ByteLength(buf) ==
  IF buf = <<>> THEN 0 ELSE Head(buf).bytes + ByteLength(Tail(buf))

ChunkIdx == 0..(MaxSentences - 1)

LocalInit ==
  /\ platform \in {"darwin", "linux"}
  /\ tempDir = FALSE
  /\ chunkFiles = [i \in ChunkIdx |-> <<>>]
  /\ concatFile = <<>>
  /\ combinedFile = <<>>
  /\ lpc = [r \in Reqs |-> "idle"]
  /\ nSent = [r \in Reqs |-> 0]
  /\ nChunks = [r \in Reqs |-> 0]
  /\ li = [r \in Reqs |-> 0]
  /\ audioBuffers = [r \in Reqs |-> <<>>]
  /\ audioData = [r \in Reqs |-> <<>>]
  /\ tried = [r \in Reqs |-> <<>>]
  /\ failedAt = [r \in Reqs |-> 0]
  /\ lOutcome = [r \in Reqs |-> "none"]
  /\ fileSize = [r \in Reqs |-> 0]

\* generateAudio up to the first await: clean the text, throw when nothing
\* is left, otherwise enter generateWithTikTokTTS and split the text
generateAudio(r, k) ==
  /\ lpc[r] = "idle"
  /\ nSent' = [nSent EXCEPT ![r] = k]
  /\ IF TextOf(k) = <<>>
     THEN /\ lpc' = [lpc EXCEPT ![r] = "done"]
          /\ lOutcome' = [lOutcome EXCEPT ![r] = "error"]
          /\ UNCHANGED <<nChunks, tried>>
     ELSE /\ lpc' = [lpc EXCEPT ![r] = "tiktok"]
          /\ nChunks' = [nChunks EXCEPT
                           ![r] = Len(splitTextIntoChunks(TextOf(k), TikTokChunkLen))]
          /\ UNCHANGED <<lOutcome, tried>>
  /\ UNCHANGED nonLocal
  /\ UNCHANGED <<platform, tempVars, li, audioBuffers, audioData, failedAt, fileSize>>

\* a variant in which only the failing chunk is replaced, by a silent
\* segment, and the loop goes on with the next chunk
TikTokFallsBackPerChunk(r) ==
  LET bufs == Append(audioBuffers[r],
                     <<Piece("silent", r, li[r], createMinimalMP3(MinSilentSeconds))>>)
  IN /\ audioBuffers' = [audioBuffers EXCEPT ![r] = bufs]
     /\ failedAt' = [failedAt EXCEPT ![r] = li[r] + 1]
     /\ IF li[r] < nChunks[r] - 1
        THEN /\ li' = [li EXCEPT ![r] = @ + 1]
             /\ UNCHANGED <<lpc, audioData, tried>>
        ELSE /\ li' = [li EXCEPT ![r] = 0]
             /\ lpc' = [lpc EXCEPT ![r] = "write"]
             /\ audioData' = [audioData EXCEPT ![r] = BufferConcat(bufs)]
             /\ tried' = [tried EXCEPT ![r] = Append(@, Call("tiktok", TRUE))]

\* a variant in which a TikTok failure goes straight to the silent MP3
TikTokSkipsSystem(r) ==
  /\ lpc' = [lpc EXCEPT ![r] = "silent"]
  /\ tried' = [tried EXCEPT ![r] = Append(@, Call("tiktok", FALSE))]
  /\ failedAt' = [failedAt EXCEPT ![r] = li[r] + 1]
  /\ audioBuffers' = [audioBuffers EXCEPT ![r] = <<>>]
  /\ li' = [li EXCEPT ![r] = 0]
  /\ UNCHANGED audioData

\* what generateAudio does when generateWithTikTokTTS throws: the catch of
\* line 171 goes on to system TTS with the whole cleaned text
TikTokThrows(r) ==
  /\ lpc' = [lpc EXCEPT ![r] = "system"]
  /\ tried' = [tried EXCEPT ![r] = Append(@, Call("tiktok", FALSE))]
  /\ failedAt' = [failedAt EXCEPT ![r] = li[r] + 1]
  /\ audioBuffers' = [audioBuffers EXCEPT ![r] = <<>>]
  /\ li' = [li EXCEPT ![r] = 0]
  /\ UNCHANGED audioData

\* what generateWithTikTokTTS does with a decoded buffer of b bytes
TikTokPush(r, b) ==
  LET bufs == Append(audioBuffers[r], <<Piece("tiktok", r, li[r], b)>>)
  IN /\ audioBuffers' = [audioBuffers EXCEPT ![r] = bufs]
     /\ UNCHANGED failedAt
     /\ IF li[r] < nChunks[r] - 1
        THEN /\ li' = [li EXCEPT ![r] = @ + 1]
             /\ UNCHANGED <<lpc, audioData, tried>>
        ELSE /\ li' = [li EXCEPT ![r] = 0]
             /\ IF Len(bufs) > 1
                THEN /\ lpc' = [lpc EXCEPT ![r] = "combine"]
                     /\ UNCHANGED <<audioData, tried>>
                ELSE /\ lpc' = [lpc EXCEPT ![r] = "write"]
                     /\ audioData' = [audioData EXCEPT ![r] = bufs[1]]
                     /\ tried' = [tried EXCEPT ![r] = Append(@, Call("tiktok", TRUE))]

\* one iteration of the chunk loop of generateWithTikTokTTS: the fetch fails
\* (network error, !response.ok, status_code !== 0, no v_str) or yields audio
generateWithTikTokTTS(r) ==
  /\ lpc[r] = "tiktok"
  /\ \/ TikTokThrows(r)
     \/ \E b \in TikTokSizes : TikTokPush(r, b)
  /\ UNCHANGED nonLocal
  /\ UNCHANGED <<platform, tempVars, nSent, nChunks, lOutcome, fileSize>>

\* a catch of combineAudioBuffers that rethrows to generateAudio
ConcatFallbackThrows(r) ==
  /\ audioData' = audioData
  /\ lpc' = [lpc EXCEPT ![r] = "system"]
  /\ li' = [li EXCEPT ![r] = 0]
  /\ tried' = [tried EXCEPT ![r] = Append(@, Call("tiktok", FALSE))]

\* the catch of combineAudioBuffers, and its branch without ffmpeg
ConcatFallback(r) ==
  /\ audioData' = [audioData EXCEPT ![r] = BufferConcat(audioBuffers[r])]
  /\ lpc' = [lpc EXCEPT ![r] = "write"]
  /\ li' = [li EXCEPT ![r] = 0]
  /\ tried' = [tried EXCEPT ![r] = Append(@, Call("tiktok", TRUE))]

\* combineAudioBuffers: checkFFmpeg
CombineCheck(r) ==
  /\ lpc[r] = "combine"
  /\ \/ /\ lpc' = [lpc EXCEPT ![r] = "mkdir"]
        /\ UNCHANGED <<audioData, li, tried>>
     \/ ConcatFallback(r)
  /\ UNCHANGED nonLocal
  /\ UNCHANGED <<platform, tempVars, nSent, nChunks, audioBuffers,
                 failedAt, lOutcome, fileSize>>

\* combineAudioBuffers: fs.mkdir(tempDir, { recursive: true })
CombineMkdir(r) ==
  /\ lpc[r] = "mkdir"
  /\ tempDir' = TRUE
  /\ lpc' = [lpc EXCEPT ![r] = "write_chunk"]
  /\ UNCHANGED nonLocal
  /\ UNCHANGED <<platform, chunkFiles, concatFile, combinedFile, nSent, nChunks,
                 li, audioBuffers, audioData, tried, failedAt, lOutcome, fileSize>>

\* combineAudioBuffers: fs.writeFile(chunk_<i>.mp3, audioBuffers[i])
CombineWriteChunk(r) ==
  /\ lpc[r] = "write_chunk"
  /\ IF tempDir
     THEN /\ chunkFiles' = [chunkFiles EXCEPT ![li[r]] = <<audioBuffers[r][li[r] + 1]>>]
          /\ li' = [li EXCEPT ![r] = IF li[r] + 1 < Len(audioBuffers[r]) THEN @ + 1 ELSE 0]
          /\ lpc' = [lpc EXCEPT ![r] = IF li[r] + 1 < Len(audioBuffers[r])
                                       THEN "write_chunk" ELSE "write_concat"]
          /\ UNCHANGED <<audioData, tried>>
     ELSE /\ ConcatFallback(r)
          /\ UNCHANGED chunkFiles
  /\ UNCHANGED nonLocal
  /\ UNCHANGED <<platform, tempDir, concatFile, combinedFile, nSent, nChunks,
                 audioBuffers, failedAt, lOutcome, fileSize>>

\* combineAudioBuffers: fs.writeFile(concat.txt, the list of chunk files)
CombineWriteConcat(r) ==
  /\ lpc[r] = "write_concat"
  /\ IF tempDir
     THEN /\ concatFile' = <<[i \in 1..Len(audioBuffers[r]) |-> i - 1]>>
          /\ lpc' = [lpc EXCEPT ![r] = "ffmpeg"]
          /\ UNCHANGED <<audioData, li, tried>>
     ELSE /\ ConcatFallback(r)
          /\ UNCHANGED concatFile
  /\ UNCHANGED nonLocal
  /\ UNCHANGED <<platform, tempDir, chunkFiles, combinedFile, nSent, nChunks,
                 audioBuffers, failedAt, lOutcome, fileSize>>

\* what `ffmpeg -f concat -i concat.txt -c copy combined.mp3` writes: the
\* files the manifest lists, in the manifest's order
FfmpegConcat ==
  LET list == concatFile[1]
  IN BufferConcat([j \in 1..Len(list) |-> chunkFiles[list[j]][1]])

FfmpegCanRun ==
  /\ concatFile # <<>>
  /\ \A j \in 1..Len(concatFile[1]) : chunkFiles[concatFile[1][j]] # <<>>

\* combineAudioBuffers: the ffmpeg run, which fails when an input is missing
\* and may fail or time out otherwise
CombineFfmpeg(r) ==
  /\ lpc[r] = "ffmpeg"
  /\ \/ /\ FfmpegCanRun
        /\ combinedFile' = <<FfmpegConcat>>
        /\ lpc' = [lpc EXCEPT ![r] = "read"]
        /\ UNCHANGED <<audioData, li, tried>>
     \/ /\ ConcatFallback(r)
        /\ UNCHANGED combinedFile
  /\ UNCHANGED nonLocal
  /\ UNCHANGED <<platform, tempDir, chunkFiles, concatFile, nSent, nChunks,
                 audioBuffers, failedAt, lOutcome, fileSize>>

\* combineAudioBuffers: combinedBuffer = fs.readFile(combined.mp3)
CombineRead(r) ==
  /\ lpc[r] = "read"
  /\ IF combinedFile # <<>>
     THEN /\ audioData' = [audioData EXCEPT ![r] = combinedFile[1]]
          /\ lpc' = [lpc EXCEPT ![r] = "unlink_chunk"]
          /\ li' = [li EXCEPT ![r] = 0]
          /\ UNCHANGED tried
     ELSE ConcatFallback(r)
  /\ UNCHANGED nonLocal
  /\ UNCHANGED <<platform, tempVars, nSent, nChunks, audioBuffers,
                 failedAt, lOutcome, fileSize>>

\* combineAudioBuffers: the cleanup loop, try { fs.unlink(tempFile) } catch {}
CombineUnlinkChunk(r) ==
  /\ lpc[r] = "unlink_chunk"
  /\ chunkFiles' = [chunkFiles EXCEPT ![li[r]] = <<>>]
  /\ li' = [li EXCEPT ![r] = IF li[r] + 1 < Len(audioBuffers[r]) THEN @ + 1 ELSE 0]
  /\ lpc' = [lpc EXCEPT ![r] = IF li[r] + 1 < Len(audioBuffers[r])
                               THEN "unlink_chunk" ELSE "unlink_concat"]
  /\ UNCHANGED nonLocal
  /\ UNCHANGED <<platform, tempDir, concatFile, combinedFile, nSent, nChunks,
                 audioBuffers, audioData, tried, failedAt, lOutcome, fileSize>>

\* combineAudioBuffers: try { fs.unlink(concatFile) } catch {}
CombineUnlinkConcat(r) ==
  /\ lpc[r] = "unlink_concat"
  /\ concatFile' = <<>>
  /\ lpc' = [lpc EXCEPT ![r] = "unlink_out"]
  /\ UNCHANGED nonLocal
  /\ UNCHANGED <<platform, tempDir, chunkFiles, combinedFile, nSent, nChunks, li,
                 audioBuffers, audioData, tried, failedAt, lOutcome, fileSize>>

\* combineAudioBuffers: try { fs.unlink(outputFile) } catch {}
CombineUnlinkOut(r) ==
  /\ lpc[r] = "unlink_out"
  /\ combinedFile' = <<>>
  /\ lpc' = [lpc EXCEPT ![r] = "rmdir"]
  /\ UNCHANGED nonLocal
  /\ UNCHANGED <<platform, tempDir, chunkFiles, concatFile, nSent, nChunks, li,
                 audioBuffers, audioData, tried, failedAt, lOutcome, fileSize>>

TempDirEmpty ==
  /\ \A i \in ChunkIdx : chunkFiles[i] = <<>>
  /\ concatFile = <<>>
  /\ combinedFile = <<>>

\* combineAudioBuffers: try { fs.rmdir(tempDir) } catch {}, then return
\* combinedBuffer
CombineRmdir(r) ==
  /\ lpc[r] = "rmdir"
  /\ tempDir' = IF TempDirEmpty THEN FALSE ELSE tempDir
  /\ lpc' = [lpc EXCEPT ![r] = "write"]
  /\ tried' = [tried EXCEPT ![r] = Append(@, Call("tiktok", TRUE))]
  /\ UNCHANGED nonLocal
  /\ UNCHANGED <<platform, chunkFiles, concatFile, combinedFile, nSent, nChunks,
                 li, audioBuffers, audioData, failedAt, lOutcome, fileSize>>

combineAudioBuffers(r) ==
  \/ CombineCheck(r)
  \/ CombineMkdir(r)
  \/ CombineWriteChunk(r)
  \/ CombineWriteConcat(r)
  \/ CombineFfmpeg(r)
  \/ CombineRead(r)
  \/ CombineUnlinkChunk(r)
  \/ CombineUnlinkConcat(r)
  \/ CombineUnlinkOut(r)
  \/ CombineRmdir(r)

\* generateWithSystemTTS: throws at once off macOS; on macOS `say` (and the
\* ffmpeg conversion) yield the audio or throw
generateWithSystemTTS(r) ==
  /\ lpc[r] = "system"
  /\ \/ /\ platform = "darwin"
        /\ \E b \in ToolSizes :
             audioData' = [audioData EXCEPT ![r] = <<Piece("system", r, 0, b)>>]
        /\ lpc' = [lpc EXCEPT ![r] = "write"]
        /\ tried' = [tried EXCEPT ![r] = Append(@, Call("system", TRUE))]
     \/ /\ lpc' = [lpc EXCEPT ![r] = "silent"]
        /\ tried' = [tried EXCEPT ![r] = Append(@, Call("system", FALSE))]
        /\ UNCHANGED audioData
  /\ UNCHANGED nonLocal
  /\ UNCHANGED <<platform, tempVars, nSent, nChunks, li, audioBuffers, failedAt,
                 lOutcome, fileSize>>

\* createValidMP3: the file ffmpeg wrote, createMinimalMP3(duration) without
\* ffmpeg, or createMinimalMP3(5) from its catch; it never throws
createValidMP3(r) ==
  /\ lpc[r] = "silent"
  /\ \E b \in ToolSizes \cup {createMinimalMP3(SilentDuration(TextOf(nSent[r]))),
                              createMinimalMP3(MinSilentSeconds)} :
       audioData' = [audioData EXCEPT ![r] = <<Piece("silent", r, 0, b)>>]
  /\ lpc' = [lpc EXCEPT ![r] = "write"]
  /\ tried' = [tried EXCEPT ![r] = Append(@, Call("silent", TRUE))]
  /\ UNCHANGED nonLocal
  /\ UNCHANGED <<platform, tempVars, nSent, nChunks, li, audioBuffers,
                 failedAt, lOutcome, fileSize>>

\* generateAudio: fs.writeFile(filepath, audioData), fs.stat, return
WriteResult(r) ==
  /\ lpc[r] = "write"
  /\ fileSize' = [fileSize EXCEPT ![r] = ByteLength(audioData[r])]
  /\ lOutcome' = [lOutcome EXCEPT ![r] = "ok"]
  /\ lpc' = [lpc EXCEPT ![r] = "done"]
  /\ UNCHANGED nonLocal
  /\ UNCHANGED <<platform, tempVars, nSent, nChunks, li, audioBuffers, audioData,
                 tried, failedAt>>

LocalStep(r) ==
  \/ \E k \in 0..MaxSentences : generateAudio(r, k)
  \/ generateWithTikTokTTS(r)
  \/ combineAudioBuffers(r)
  \/ generateWithSystemTTS(r)
  \/ createValidMP3(r)
  \/ WriteResult(r)

\* ------------------------- generateTikTokVoice (cloudinaryAudioService.js)
\* sizes of the audio a speech engine or a web endpoint can leave behind
AudioSizes == {0, 500, 5000}

\* cleanText.length of the texts handed to generateTikTokVoice
CloudLens == {0, 2, 10000}

\* the top-level chain of generateTikTokVoice
Chain == <<"google_tts_primary", "enhanced_fallback", "enhanced_web_tts",
           "advanced_placeholder", "basic_placeholder">>

Wrote(by, b) == [ok |-> TRUE, by |-> by, bytes |-> b, fault |-> FALSE]

Threw(fault) == [ok |-> FALSE, by |-> "none", bytes |-> 0, fault |-> fault]

\* the file a strategy left at outputPath: its size, and whether it is the
\* RIFF/WAVE data of createSilentWav
FileOf(res) == [wav |-> res.by = "silent_wav", bytes |-> res.bytes]

\* a duration in seconds, as the fraction num / den
Seconds(num, den) == [num |-> num, den |-> den]

\* Math.min(Math.max(len / perSecond, lo), hi)
ClampedDuration(len, perSecond, lo, hi) ==
  IF len < lo * perSecond THEN Seconds(lo, 1)
  ELSE IF len > hi * perSecond THEN Seconds(hi, 1)
  ELSE Seconds(len, perSecond)

\* estimateAudioDuration: Math.max(text.length / 5 / 180 * 60, 10)
estimateAudioDuration(len) ==
  IF len < 150 THEN Seconds(10, 1) ELSE Seconds(len, 15)

\* Math.floor(sampleRate * durationSeconds). The product is exact for a
\* whole number of seconds; a duration that came out of floating-point
\* divisions can lie just under the fraction it stands for (1845 / 5 / 180 *
\* 60 is 122.99999999999999), and the floor is then one sample short
SampleCounts(d) ==
  LET n == (SampleRate * d.num) \div d.den
  IN IF d.den = 1 THEN {n} ELSE {n, n - 1}

\* what writeUInt32LE accepts
FitsUInt32(x) == x >= 0 /\ x \div 65536 < 65536

\* a variant that takes the sample count for the byte count
WavFileOfSamples(numSamples) ==
  [numSamples |-> numSamples,
   riffChunkSize |-> 36 + numSamples,
   fmtChunkSize |-> 16,
   audioFormat |-> 1,
   numChannels |-> NumChannels,
   sampleRate |-> SampleRate,
   byteRate |-> 88200,
   blockAlign |-> 2,
   bitsPerSample |-> BitsPerSample,
   dataChunkSize |-> numSamples,
   dataLength |-> numSamples,
   dataFill |-> 0,
   size |-> HeaderSize + numSamples]

\* a variant whose RIFF chunk size is the size of the whole file
WavFileRiffWhole(numSamples) ==
  [numSamples |-> numSamples,
   riffChunkSize |-> HeaderSize + numSamples * 2,
   fmtChunkSize |-> 16,
   audioFormat |-> 1,
   numChannels |-> NumChannels,
   sampleRate |-> SampleRate,
   byteRate |-> 88200,
   blockAlign |-> 2,
   bitsPerSample |-> BitsPerSample,
   dataChunkSize |-> numSamples * 2,
   dataLength |-> numSamples * 2,
   dataFill |-> 0,
   size |-> HeaderSize + numSamples * 2]

\* createSilentWav: the 44-byte header and the data it puts together
WavFile(numSamples) ==
  LET byteRate == (SampleRate * NumChannels * BitsPerSample) \div 8
      blockAlign == (NumChannels * BitsPerSample) \div 8
      dataSize == numSamples * blockAlign
      chunkSize == 36 + dataSize
  IN [numSamples |-> numSamples,
      riffChunkSize |-> chunkSize,
      fmtChunkSize |-> 16,
      audioFormat |-> 1,
      numChannels |-> NumChannels,
      sampleRate |-> SampleRate,
      byteRate |-> byteRate,
      blockAlign |-> blockAlign,
      bitsPerSample |-> BitsPerSample,
      dataChunkSize |-> dataSize,
      dataLength |-> dataSize,
      dataFill |-> 0,
      size |-> HeaderSize + dataSize]

\* createSilentWav: the size of the file it writes, 44 + dataSize
SilentWavSize(numSamples) == WavFile(numSamples).size

\* createSilentWav: writes the file, or throws when fs.writeFile rejects
createSilentWav(d) ==
  {Wrote("silent_wav", SilentWavSize(n)) : n \in SampleCounts(d)} \cup {Threw(TRUE)}

generateSystemTTS == {Wrote("system_tts", b) : b \in ToolSizes} \cup {Threw(FALSE)}

\* generateWebGoogleTTS: a response under 1000 bytes is thrown away
generateWebGoogleTTS ==
  {Wrote("web_google", b) : b \in {x \in AudioSizes : x >= 1000}} \cup {Threw(FALSE)}

\* generateGoogleTTS: node-gtts, then the web endpoint, then system TTS
generateGoogleTTS(len) ==
  IF len < 3 THEN {Threw(FALSE)}
  ELSE {Wrote("node_gtts", b) : b \in AudioSizes}
       \cup generateWebGoogleTTS \cup generateSystemTTS

generateEdgeTTS == {Wrote("edge_tts", b) : b \in ToolSizes} \cup {Threw(FALSE)}

generateWebTTS(len) == generateEdgeTTS \cup generateGoogleTTS(len) \cup generateSystemTTS

\* generateCloudTTS: espeak, festival, say, then generateWebTTS
generateCloudTTS(len) ==
  {Wrote("cloud_tts", b) : b \in ToolSizes} \cup generateWebTTS(len)

\* createAdvancedPlaceholder: the ffmpeg beep pattern, the ffmpeg tone, then
\* createSilentWav of Math.min(Math.max(textLength / 10, 5), 30) seconds
createAdvancedPlaceholder(len) ==
  {Wrote(by, b) : by \in {"ffmpeg_beep", "ffmpeg_tone"}, b \in ToolSizes}
  \cup createSilentWav(ClampedDuration(len, 10, 5, 30))

\* generateFallbackAudio: returns at the first method that succeeds and
\* throws only when the last one, createAdvancedPlaceholder, threw
generateFallbackAudio(len) ==
  {x \in generateGoogleTTS(len) \cup generateWebTTS(len) \cup generateSystemTTS
         \cup generateCloudTTS(len) \cup createAdvancedPlaceholder(len) : x.ok}
  \cup {x \in createAdvancedPlaceholder(len) : ~x.ok}

\* generateEnhancedWebTTS: ResponsiveVoice and TTS-API write whatever the
\* endpoint answered, then generateGoogleTTS with retries
generateEnhancedWebTTS(len) ==
  {Wrote(by, b) : by \in {"responsive_voice", "tts_api"}, b \in AudioSizes}
  \cup generateGoogleTTS(len)

\* createPlaceholderAudio: ffmpeg silence, then createSilentWav of
\* Math.min(Math.max(len / 15, 10), 300) seconds
createPlaceholderAudio(len) ==
  {Wrote("ffmpeg_silent", b) : b \in ToolSizes}
  \cup createSilentWav(ClampedDuration(len, 15, 10, 300))

\* what each strategy of the chain can do
StrategyResults(name, len) ==
  CASE name = "google_tts_primary" -> generateGoogleTTS(len)
    [] name = "enhanced_fallback" -> generateFallbackAudio(len)
    [] name = "enhanced_web_tts" -> generateEnhancedWebTTS(len)
    [] name = "advanced_placeholder" -> createAdvancedPlaceholder(len)
    [] name = "basic_placeholder" -> createPlaceholderAudio(len)

CloudInit ==
  /\ cpc = "idle"
  /\ cTextLen = 0
  /\ cFile = <<>>
  /\ cInvoked = <<>>
  /\ audioGenerated = FALSE
  /\ generationMethod = "fallback_final"
  /\ wavFault = FALSE
  /\ uploadResult = <<>>
  /\ tempFilePath = TRUE
  /\ handedSize = <<>>
  /\ cOutcome = "none"
  /\ gaInput = <<>>

\* generateTikTokVoice up to the first strategy: throws on an empty text
generateTikTokVoice(len) ==
  /\ cpc = "idle"
  /\ cTextLen' = len
  /\ IF len = 0
     THEN /\ cpc' = "done"
          /\ cOutcome' = "error"
     ELSE /\ cpc' = Chain[1]
          /\ UNCHANGED cOutcome
  /\ UNCHANGED <<cFile, cInvoked, audioGenerated, generationMethod, wavFault,
                 uploadResult, tempFilePath, handedSize>>
  /\ UNCHANGED nonCloud

\* a variant in which the first failing strategy ends the request
AfterFailureThrows(i) ==
  /\ cpc' = "done"
  /\ cOutcome' = "error"

\* where generateTikTokVoice goes when strategy i of the chain threw: into
\* the catch that tries strategy i + 1, and out of the function (through the
\* outer catch) after the last one
AfterFailure(i) ==
  IF i < Len(Chain)
  THEN /\ cpc' = Chain[i + 1]
       /\ UNCHANGED cOutcome
  ELSE /\ cpc' = "done"
       /\ cOutcome' = "error"

\* where it goes when strategy i returned
AfterSuccess(i) ==
  /\ cpc' = "verify"
  /\ audioGenerated' = TRUE
  /\ generationMethod' = Chain[i]
  /\ UNCHANGED cOutcome

\* one strategy of the chain is awaited
TryStrategy(i) ==
  /\ cpc = Chain[i]
  /\ \E res \in StrategyResults(Chain[i], cTextLen) :
       /\ cInvoked' = Append(cInvoked, Call(Chain[i], res.ok))
       /\ wavFault' = (wavFault \/ res.fault)
       /\ IF res.ok
          THEN /\ cFile' = <<FileOf(res)>>
               /\ AfterSuccess(i)
          ELSE /\ AfterFailure(i)
               /\ UNCHANGED <<cFile, audioGenerated, generationMethod>>
  /\ UNCHANGED <<cTextLen, uploadResult, tempFilePath, handedSize>>
  /\ UNCHANGED nonCloud

\* "Verify the audio file exists and has content": an empty file is written
\* again by createSilentWav; a failing stat or write is logged and ignored
VerifyFile ==
  /\ cpc = "verify"
  /\ IF cFile # <<>> /\ cFile[1].bytes = 0
     THEN \E res \in createSilentWav(estimateAudioDuration(cTextLen)) :
            /\ cFile' = IF res.ok THEN <<FileOf(res)>> ELSE cFile
            /\ wavFault' = (wavFault \/ res.fault)
     ELSE UNCHANGED <<cFile, wavFault>>
  /\ cpc' = "upload"
  /\ UNCHANGED <<cTextLen, cInvoked, audioGenerated, generationMethod, uploadResult,
                 tempFilePath, handedSize, cOutcome>>
  /\ UNCHANGED nonCloud

\* an upload whose catch builds the local result but leaves tempFilePath set
UploadKeepsPath ==
  /\ cpc = "upload"
  /\ handedSize' = IF cFile = <<>> THEN <<>> ELSE <<cFile[1].bytes>>
  /\ \/ /\ cFile # <<>>
        /\ uploadResult' = <<[url |-> "cloudinary", bytes |-> cFile[1].bytes]>>
     \/ uploadResult' = <<[url |-> "file", bytes |-> 0]>>
  /\ cpc' = "cleanup"
  /\ UNCHANGED <<cTextLen, cFile, cInvoked, audioGenerated, generationMethod,
                 wavFault, cOutcome, tempFilePath>>
  /\ UNCHANGED nonCloud

\* cloudinary.uploader.upload: it returns, or it throws and the catch builds
\* the local file:// result and sets tempFilePath = null
Upload ==
  /\ cpc = "upload"
  /\ handedSize' = IF cFile = <<>> THEN <<>> ELSE <<cFile[1].bytes>>
  /\ \/ /\ cFile # <<>>
        /\ uploadResult' = <<[url |-> "cloudinary", bytes |-> cFile[1].bytes]>>
        /\ UNCHANGED tempFilePath
     \/ /\ uploadResult' = <<[url |-> "file", bytes |-> 0]>>
        /\ tempFilePath' = FALSE
  /\ cpc' = "cleanup"
  /\ UNCHANGED <<cTextLen, cFile, cInvoked, audioGenerated, generationMethod,
                 wavFault, cOutcome>>
  /\ UNCHANGED nonCloud

\* a cleanup that unlinks the temporary file whatever the upload did
FinishUnlinksAlways ==
  /\ cpc = "cleanup"
  /\ cFile' = <<>>
  /\ cpc' = "done"
  /\ cOutcome' = "ok"
  /\ UNCHANGED <<cTextLen, cInvoked, audioGenerated, generationMethod, wavFault,
                 uploadResult, tempFilePath, handedSize>>
  /\ UNCHANGED nonCloud

\* the cleanup of the temporary file, then the return of the result
Finish ==
  /\ cpc = "cleanup"
  /\ cFile' = IF tempFilePath THEN <<>> ELSE cFile
  /\ cpc' = "done"
  /\ cOutcome' = "ok"
  /\ UNCHANGED <<cTextLen, cInvoked, audioGenerated, generationMethod, wavFault,
                 uploadResult, tempFilePath, handedSize>>
  /\ UNCHANGED nonCloud

CloudNext ==
  \/ \E len \in CloudLens : generateTikTokVoice(len)
  \/ \E i \in 1..Len(Chain) : TryStrategy(i)
  \/ VerifyFile
  \/ Upload
  \/ Finish

\* the text arguments of generateAudio: null, a value that is not a string,
\* and strings by the length of what cleanTextForTTS makes of them
GaInputs ==
  {[kind |-> k, len |-> 0] : k \in {"null", "number"}}
  \cup {[kind |-> "string", len |-> n] :
          n \in {0, MinTextChars - 1, MinTextChars, MaxTextChars, MaxTextChars + 1}}

\* what the second cleanTextForTTS, the one of generateTikTokVoice, can
\* leave of a cleaned text of len characters: all of it, less, or nothing
SecondCleanLens(len) == {len, len - 1, 0}

\* a generateAudio that lets every non-empty text through
cloudGenerateAudioUnchecked ==
  /\ cpc = "idle"
  /\ \E in \in GaInputs :
       /\ gaInput' = <<in>>
       /\ IF in.len = 0
          THEN /\ cTextLen' = in.len
               /\ cpc' = "done"
               /\ cOutcome' = "error"
          ELSE \E len2 \in SecondCleanLens(in.len) :
                 /\ cTextLen' = len2
                 /\ IF len2 = 0
                    THEN cpc' = "done" /\ cOutcome' = "error"
                    ELSE cpc' = Chain[1] /\ UNCHANGED cOutcome
  /\ UNCHANGED <<cFile, cInvoked, audioGenerated, generationMethod, wavFault,
                 uploadResult, tempFilePath, handedSize>>
  /\ UNCHANGED nonCloudGa

\* generateAudio of the cloud service up to the first strategy: the text is
\* cleaned and rejected when empty, under 10 or over 10000 characters;
\* generateTikTokVoice then cleans it again and throws when nothing is left
cloudGenerateAudio ==
  /\ cpc = "idle"
  /\ \E in \in GaInputs :
       /\ gaInput' = <<in>>
       /\ IF in.len < MinTextChars \/ in.len > MaxTextChars
          THEN /\ cTextLen' = in.len
               /\ cpc' = "done"
               /\ cOutcome' = "error"
          ELSE \E len2 \in SecondCleanLens(in.len) :
                 /\ cTextLen' = len2
                 /\ IF len2 = 0
                    THEN cpc' = "done" /\ cOutcome' = "error"
                    ELSE cpc' = Chain[1] /\ UNCHANGED cOutcome
  /\ UNCHANGED <<cFile, cInvoked, audioGenerated, generationMethod, wavFault,
                 uploadResult, tempFilePath, handedSize>>
  /\ UNCHANGED nonCloudGa

\* ------------------------------------- createSilentWav and its callers
WavCallers == {"createPlaceholderAudio", "createAdvancedPlaceholder",
               "generateTikTokVoice", "direct"}

\* the whole numbers of seconds between the shortest and the longest
\* duration the callers compute for a text generateAudio accepts
WholeSeconds == 5..(MaxTextChars \div 15)

\* the durationSeconds each caller passes
DurationOf(caller, arg) ==
  CASE caller = "createPlaceholderAudio" -> ClampedDuration(arg, 15, 10, 300)
    [] caller = "createAdvancedPlaceholder" -> ClampedDuration(arg, 10, 5, 30)
    [] caller = "generateTikTokVoice" -> estimateAudioDuration(arg)
    [] caller = "direct" -> Seconds(arg, 1)

WavIdle ==
  /\ wavCaller = "direct"
  /\ wavArg = 5
  /\ wavDur = <<>>
  /\ wavFile = <<>>
  /\ wavPc = "input"

WavInit ==
  /\ wavCaller \in WavCallers
  /\ wavArg \in IF wavCaller = "direct" THEN WholeSeconds
                ELSE MinTextChars..MaxTextChars
  /\ wavDur = <<>>
  /\ wavFile = <<>>
  /\ wavPc = "input"

\* createSilentWav(outputPath, d): writeUInt32LE throws a RangeError on a
\* value it cannot hold, fs.writeFile writes the file or rejects
SilentWavCall(d) ==
  /\ wavDur' = <<d>>
  /\ \E n \in SampleCounts(d) :
       LET f == WavFile(n)
       IN IF ~(FitsUInt32(f.riffChunkSize) /\ FitsUInt32(f.dataChunkSize))
          THEN /\ wavPc' = "range_error"
               /\ UNCHANGED wavFile
          ELSE \/ /\ wavPc' = "written"
                  /\ wavFile' = <<f>>
               \/ /\ wavPc' = "failed"
                  /\ UNCHANGED wavFile
  /\ UNCHANGED <<wavCaller, wavArg>>
  /\ UNCHANGED nonWav

\* createPlaceholderAudio after its ffmpeg attempt failed
PlaceholderWav ==
  /\ wavPc = "input"
  /\ wavCaller = "createPlaceholderAudio"
  /\ SilentWavCall(DurationOf(wavCaller, wavArg))

\* createAdvancedPlaceholder after both ffmpeg attempts failed
AdvancedWav ==
  /\ wavPc = "input"
  /\ wavCaller = "createAdvancedPlaceholder"
  /\ SilentWavCall(DurationOf(wavCaller, wavArg))

\* generateTikTokVoice re-creating an empty file
RecreateWav ==
  /\ wavPc = "input"
  /\ wavCaller = "generateTikTokVoice"
  /\ SilentWavCall(DurationOf(wavCaller, wavArg))

\* createSilentWav handed a whole number of seconds
DirectWav ==
  /\ wavPc = "input"
  /\ wavCaller = "direct"
  /\ SilentWavCall(DurationOf(wavCaller, wavArg))

\* ------------------- generateEnhancedWebTTS and generateGoogleTTS, by step
\* text.length of the texts handed to generateEnhancedWebTTS
WebLens == {2, 10}

\* one entry of the log: an attempt or a return with its outcome, or a wait
\* of ms milliseconds
Ev(name, ok, ms) == [name |-> name, ok |-> ok, ms |-> ms]

\* execAsync(command): the child process awaited; timeout is <<>> when no
\* timeout option is passed; a process that hangs never exits by itself
Exec(cmd, hangs) == [cmd |-> cmd, timeout |-> <<>>, hangs |-> hangs]

WebIdle ==
  /\ wpc = "off"
  /\ wLen = 0
  /\ wAttempt = 0
  /\ wLog = <<>>
  /\ wFile = <<>>
  /\ wExec = <<>>
  /\ wOutcome = "none"

WebInit ==
  /\ wpc = "idle"
  /\ wLen = 0
  /\ wAttempt = 0
  /\ wLog = <<>>
  /\ wFile = <<>>
  /\ wExec = <<>>
  /\ wOutcome = "none"

\* generateEnhancedWebTTS is called and awaits its first method
generateEnhancedWebTTSCall ==
  /\ wpc = "idle"
  /\ \E len \in WebLens : wLen' = len
  /\ wpc' = "responsive_voice"
  /\ UNCHANGED <<wAttempt, wLog, wFile, wExec, wOutcome>>
  /\ UNCHANGED nonWeb

\* method 1 or 2: the fetch answers ok and the body is written whatever its
\* size, or the method returns false
FetchMethod(name, next) ==
  /\ \/ \E b \in AudioSizes :
          /\ wFile' = <<b>>
          /\ wLog' = Append(wLog, Ev(name, TRUE, 0))
          /\ wpc' = "done"
          /\ wOutcome' = "ok"
     \/ /\ wLog' = Append(wLog, Ev(name, FALSE, 0))
        /\ wpc' = next
        /\ UNCHANGED <<wFile, wOutcome>>
  /\ UNCHANGED <<wLen, wAttempt, wExec>>

\* method 1: ResponsiveVoice
ResponsiveVoice ==
  /\ wpc = "responsive_voice"
  /\ FetchMethod("responsive_voice", "tts_api")
  /\ UNCHANGED nonWeb

\* method 2: TTS-API; method 3 is the retry loop around generateGoogleTTS
TtsApi ==
  /\ wpc = "tts_api"
  /\ FetchMethod("tts_api", "google")
  /\ UNCHANGED nonWeb

\* generateGoogleTTS returns (success = true): the retry method returns true
\* and so does generateEnhancedWebTTS
GoogleReturns(events, b) ==
  /\ wLog' = wLog \o events \o <<Ev("generateGoogleTTS", TRUE, 0)>>
  /\ wFile' = <<b>>
  /\ wExec' = <<>>
  /\ wpc' = "done"
  /\ wOutcome' = "ok"
  /\ UNCHANGED wAttempt

\* generateGoogleTTS throws: the retry method waits before the next attempt
\* if (attempt < 2), and returns false after the third, upon which
\* generateEnhancedWebTTS throws "All web TTS methods failed"
GoogleThrows(events) ==
  /\ wLog' = wLog \o events \o <<Ev("generateGoogleTTS", FALSE, 0)>>
  /\ wExec' = <<>>
  /\ UNCHANGED <<wFile, wAttempt>>
  /\ IF wAttempt < 2
     THEN /\ wpc' = "backoff"
          /\ UNCHANGED wOutcome
     ELSE /\ wpc' = "done"
          /\ wOutcome' = "error"

\* generateGoogleTTS up to its first await: a text under 3 characters throws
GoogleEntry ==
  /\ wpc = "google"
  /\ IF wLen < 3
     THEN GoogleThrows(<<>>)
     ELSE /\ wpc' = "node_gtts"
          /\ UNCHANGED <<wAttempt, wLog, wFile, wExec, wOutcome>>
  /\ UNCHANGED wLen
  /\ UNCHANGED nonWeb

\* method 1 of generateGoogleTTS: gtts.save calls back without an error,
\* whatever it saved, or with one
NodeGtts ==
  /\ wpc = "node_gtts"
  /\ \/ \E b \in AudioSizes : GoogleReturns(<<Ev("node_gtts", TRUE, 0)>>, b)
     \/ /\ wLog' = Append(wLog, Ev("node_gtts", FALSE, 0))
        /\ wpc' = "web_google"
        /\ UNCHANGED <<wAttempt, wFile, wExec, wOutcome>>
  /\ UNCHANGED wLen
  /\ UNCHANGED nonWeb

\* method 2: generateWebGoogleTTS writes a body of at least 1000 bytes and
\* throws on a smaller one, on a status that is not ok and on a network
\* error; generateSystemTTS then starts with `say` on macOS, espeak elsewhere
WebGoogle ==
  /\ wpc = "web_google"
  /\ \/ \E b \in {x \in AudioSizes : x >= 1000} :
          GoogleReturns(<<Ev("web_google", TRUE, 0)>>, b)
     \/ /\ wLog' = Append(wLog, Ev("web_google", FALSE, 0))
        /\ \E h \in BOOLEAN :
             wExec' = <<Exec(IF platform = "darwin" THEN "say" ELSE "espeak", h)>>
        /\ wpc' = "exec"
        /\ UNCHANGED <<wAttempt, wFile, wOutcome>>
  /\ UNCHANGED wLen
  /\ UNCHANGED nonWeb

\* `say` exits: with status 0 the ffmpeg conversion is started, otherwise
\* the catch goes on to espeak
SayExits ==
  /\ wpc = "exec"
  /\ wExec[1].cmd = "say"
  /\ ~wExec[1].hangs
  /\ \E h \in BOOLEAN :
       \/ /\ wExec' = <<Exec("ffmpeg", h)>>
          /\ wLog' = Append(wLog, Ev("say", TRUE, 0))
       \/ /\ wExec' = <<Exec("espeak", h)>>
          /\ wLog' = Append(wLog, Ev("say", FALSE, 0))
  /\ UNCHANGED <<wpc, wLen, wAttempt, wFile, wOutcome>>
  /\ UNCHANGED nonWeb

\* the ffmpeg conversion exits: with status 0 generateSystemTTS returns,
\* otherwise the .aiff file is moved to outputPath with mv
ConvertExits ==
  /\ wpc = "exec"
  /\ wExec[1].cmd = "ffmpeg"
  /\ ~wExec[1].hangs
  /\ \/ /\ \E b \in ToolSizes :
             GoogleReturns(<<Ev("ffmpeg", TRUE, 0), Ev("system_tts", TRUE, 0)>>, b)
        /\ UNCHANGED wLen
     \/ /\ \E h \in BOOLEAN : wExec' = <<Exec("mv", h)>>
        /\ wLog' = Append(wLog, Ev("ffmpeg", FALSE, 0))
        /\ UNCHANGED <<wpc, wLen, wAttempt, wFile, wOutcome>>
  /\ UNCHANGED nonWeb

\* mv exits: with status 0 generateSystemTTS returns, otherwise the catch
\* goes on to espeak
MvExits ==
  /\ wpc = "exec"
  /\ wExec[1].cmd = "mv"
  /\ ~wExec[1].hangs
  /\ \/ /\ \E b \in ToolSizes :
             GoogleReturns(<<Ev("mv", TRUE, 0), Ev("system_tts", TRUE, 0)>>, b)
        /\ UNCHANGED wLen
     \/ /\ \E h \in BOOLEAN : wExec' = <<Exec("espeak", h)>>
        /\ wLog' = Append(wLog, Ev("mv", FALSE, 0))
        /\ UNCHANGED <<wpc, wLen, wAttempt, wFile, wOutcome>>
  /\ UNCHANGED nonWeb

\* espeak exits: with status 0 generateSystemTTS returns, otherwise it
\* throws "No system TTS available" and generateGoogleTTS throws in turn
EspeakExits ==
  /\ wpc = "exec"
  /\ wExec[1].cmd = "espeak"
  /\ ~wExec[1].hangs
  /\ \/ \E b \in ToolSizes :
          GoogleReturns(<<Ev("espeak", TRUE, 0), Ev("system_tts", TRUE, 0)>>, b)
     \/ GoogleThrows(<<Ev("espeak", FALSE, 0), Ev("system_tts", FALSE, 0)>>)
  /\ UNCHANGED wLen
  /\ UNCHANGED nonWeb

\* the retry loop with a wait that does not grow with the attempt
BackoffFlat ==
  /\ wpc = "backoff"
  /\ wLog' = Append(wLog, Ev("wait", TRUE, 1000))
  /\ wAttempt' = wAttempt + 1
  /\ wpc' = "google"
  /\ UNCHANGED <<wLen, wFile, wExec, wOutcome>>
  /\ UNCHANGED nonWeb

\* the retry loop: setTimeout(resolve, 1000 * (attempt + 1)), then the next
\* attempt
Backoff ==
  /\ wpc = "backoff"
  /\ wLog' = Append(wLog, Ev("wait", TRUE, 1000 * (wAttempt + 1)))
  /\ wAttempt' = wAttempt + 1
  /\ wpc' = "google"
  /\ UNCHANGED <<wLen, wFile, wExec, wOutcome>>
  /\ UNCHANGED nonWeb

\* ---------- generateTikTokVoice of the second AudioService class, by step
\* the files narrator-audio may hold, and the size of each
NarratorFiles == {"n1.mp3", "N2.MP3", "readme.txt"}

NarratorSize(file) == IF file = "n1.mp3" THEN 5000 ELSE 500

\* path.extname(file).toLowerCase() === ".mp3"
IsMp3(file) == file \in {"n1.mp3", "N2.MP3"}

PreIdle ==
  /\ narratorDir = <<{}>>
  /\ ppc = "off"
  /\ pTried = <<>>
  /\ pFile = <<>>
  /\ pMethod = "placeholder"
  /\ pOutcome = "none"

\* narrator-audio is missing (readdir throws) or holds any of the files
PreInit ==
  /\ narratorDir \in {<<>>} \cup {<<d>> : d \in SUBSET NarratorFiles}
  /\ ppc = "idle"
  /\ pTried = <<>>
  /\ pFile = <<>>
  /\ pMethod = "placeholder"
  /\ pOutcome = "none"

\* generateTikTokVoice is called with a text that cleans to a non-empty one
\* and awaits generateFromPreRecorded
PreCall ==
  /\ ppc = "idle"
  /\ ppc' = "pre_recorded"
  /\ UNCHANGED <<narratorDir, pTried, pFile, pMethod, pOutcome>>
  /\ UNCHANGED nonPre

\* generateFromPreRecorded: copies one of the .mp3 files of narrator-audio
\* and returns true; returns false when readdir fails, when there is no
\* .mp3 file or when the copy fails, and generateWebTTS is awaited
PreRecorded ==
  /\ ppc = "pre_recorded"
  /\ \/ /\ narratorDir # <<>>
        /\ \E f \in {x \in narratorDir[1] : IsMp3(x)} :
             pFile' = <<[by |-> "pre-recorded", bytes |-> NarratorSize(f)]>>
        /\ pTried' = Append(pTried, [name |-> "pre-recorded", ok |-> TRUE])
        /\ pMethod' = "pre-recorded"
        /\ ppc' = "upload"
     \/ /\ pTried' = Append(pTried, [name |-> "pre-recorded", ok |-> FALSE])
        /\ ppc' = "web_tts"
        /\ UNCHANGED <<pFile, pMethod>>
  /\ UNCHANGED <<narratorDir, pOutcome>>
  /\ UNCHANGED nonPre

\* a live strategy returns with a file written, or throws and the next
\* strategy is awaited
LiveTTS(name, sizes, next) ==
  /\ \/ /\ \E b \in sizes : pFile' = <<[by |-> name, bytes |-> b]>>
        /\ pTried' = Append(pTried, [name |-> name, ok |-> TRUE])
        /\ pMethod' = name
        /\ ppc' = "upload"
     \/ /\ pTried' = Append(pTried, [name |-> name, ok |-> FALSE])
        /\ ppc' = next
        /\ UNCHANGED <<pFile, pMethod>>
  /\ UNCHANGED <<narratorDir, pOutcome>>

\* await this.generateWebTTS(cleanText, tempFilePath, voice, speed)
PreWebTTS ==
  /\ ppc = "web_tts"
  /\ LiveTTS("web_tts", AudioSizes, "system_tts")
  /\ UNCHANGED nonPre

\* await this.generateSystemTTS(cleanText, tempFilePath, voice, speed)
PreSystemTTS ==
  /\ ppc = "system_tts"
  /\ LiveTTS("system_tts", ToolSizes, "placeholder")
  /\ UNCHANGED nonPre

\* await this.createPlaceholderAudio(cleanText, tempFilePath): silence made
\* by ffmpeg, or a silent WAV of 10 to 300 seconds; generationMethod stays
\* "placeholder"; an exception leaves through the outer catch
PrePlaceholder ==
  /\ ppc = "placeholder"
  /\ \/ /\ \E b \in ToolSizes \cup {SilentWavSize(SampleRate * d) : d \in {10, 300}} :
             pFile' = <<[by |-> "placeholder", bytes |-> b]>>
        /\ pTried' = Append(pTried, [name |-> "placeholder", ok |-> TRUE])
        /\ ppc' = "upload"
        /\ UNCHANGED pOutcome
     \/ /\ pTried' = Append(pTried, [name |-> "placeholder", ok |-> FALSE])
        /\ ppc' = "done"
        /\ pOutcome' = "error"
        /\ UNCHANGED pFile
  /\ UNCHANGED <<narratorDir, pMethod>>
  /\ UNCHANGED nonPre

\* cloudinary.uploader.upload, then the temporary file is unlinked and the
\* result returned; a failed upload leaves through the outer catch
PreUpload ==
  /\ ppc = "upload"
  /\ ppc' = "done"
  /\ \/ pOutcome' = "ok" /\ pFile' = <<>>
     \/ pOutcome' = "error" /\ UNCHANGED pFile
  /\ UNCHANGED <<narratorDir, pTried, pMethod>>
  /\ UNCHANGED nonPre

\* ------------------- one strategy attempt and its auxiliary temporary files
\* the functions that create auxiliary files, with their first step
AuxFns == {"generateCloudTTS", "generateEdgeTTS", "generateWithSystemTTS",
           "createValidMP3"}

AuxEntry(fn) ==
  CASE fn = "generateCloudTTS" -> "espeak"
    [] fn = "generateEdgeTTS" -> "ssml_write"
    [] fn = "generateWithSystemTTS" -> "sys_say"
    [] fn = "createValidMP3" -> "valid_check"

AuxIdle ==
  /\ aFn = "none"
  /\ apc = "off"
  /\ aux = {}
  /\ aCalls = 0
  /\ aEnd = "none"

AuxInit ==
  /\ aFn = "none"
  /\ apc = "idle"
  /\ aux = {}
  /\ aCalls = 0
  /\ aEnd = "none"

\* the attempt ends: it returns with its audio, fails or throws
AuxEnds(how) ==
  /\ apc' = "done"
  /\ aEnd' = how

\* the attempt goes on to its next step
AuxGoes(next) ==
  /\ apc' = next
  /\ UNCHANGED aEnd

\* a strategy attempt starts, the first one or the one the orchestrator
\* goes on with after the previous attempt ended
AuxCall ==
  /\ apc \in {"idle", "done"}
  /\ aCalls < MaxAttempts
  /\ aCalls' = aCalls + 1
  /\ \E fn \in AuxFns :
       /\ aFn' = fn
       /\ apc' = AuxEntry(fn)
  /\ aEnd' = "none"
  /\ UNCHANGED aux
  /\ UNCHANGED nonAux

\* generateCloudTTS: espeak -w outputPath
CloudEspeak ==
  /\ apc = "espeak"
  /\ \/ AuxEnds("returned")
     \/ AuxGoes("festival_write")
  /\ UNCHANGED <<aFn, aCalls, aux>>
  /\ UNCHANGED nonAux

\* generateCloudTTS: fs.writeFile(textFile, text) for festival
FestivalWrite ==
  /\ apc = "festival_write"
  /\ \/ aux' = aux \cup {"txt"} /\ AuxGoes("festival")
     \/ UNCHANGED aux /\ AuxGoes("say")
  /\ UNCHANGED <<aFn, aCalls>>
  /\ UNCHANGED nonAux

\* generateCloudTTS: festival --tts; the text file is unlinked after the
\* command succeeded, and the catch goes on to `say`
Festival ==
  /\ apc = "festival"
  /\ \/ aux' = aux \ {"txt"} /\ AuxEnds("returned")
     \/ UNCHANGED aux /\ AuxGoes("say")
  /\ UNCHANGED <<aFn, aCalls>>
  /\ UNCHANGED nonAux

\* generateCloudTTS: say -o <outputPath>.aiff, which exists on macOS only
CloudSay ==
  /\ apc = "say"
  /\ \/ /\ platform = "darwin"
        /\ aux' = aux \cup {"aiff"}
        /\ AuxGoes("convert")
     \/ UNCHANGED aux /\ AuxGoes("web")
  /\ UNCHANGED <<aFn, aCalls>>
  /\ UNCHANGED nonAux

\* generateCloudTTS: ffmpeg -i <.aiff> outputPath && rm <.aiff>
CloudConvert ==
  /\ apc = "convert"
  /\ \/ aux' = aux \ {"aiff"} /\ AuxEnds("returned")
     \/ UNCHANGED aux /\ AuxGoes("mv")
  /\ UNCHANGED <<aFn, aCalls>>
  /\ UNCHANGED nonAux

\* generateCloudTTS: mv <.aiff> outputPath
CloudMv ==
  /\ apc = "mv"
  /\ \/ aux' = aux \ {"aiff"} /\ AuxEnds("returned")
     \/ UNCHANGED aux /\ AuxGoes("web")
  /\ UNCHANGED <<aFn, aCalls>>
  /\ UNCHANGED nonAux

\* generateCloudTTS: await this.generateWebTTS(...), which returns or throws
CloudWeb ==
  /\ apc = "web"
  /\ \E how \in {"returned", "threw"} : AuxEnds(how)
  /\ UNCHANGED <<aFn, aCalls, aux>>
  /\ UNCHANGED nonAux

\* generateEdgeTTS: fs.writeFile(tempSSMLFile, ssml); a failure is caught by
\* the outer catch, which returns false
EdgeWrite ==
  /\ apc = "ssml_write"
  /\ \/ aux' = aux \cup {"ssml"} /\ AuxGoes("edge_file")
     \/ UNCHANGED aux /\ AuxEnds("failed")
  /\ UNCHANGED <<aFn, aCalls>>
  /\ UNCHANGED nonAux

\* generateEdgeTTS: edge-tts --file; the SSML file is unlinked on both paths
EdgeFile ==
  /\ apc = "edge_file"
  /\ aux' = aux \ {"ssml"}
  /\ \/ AuxEnds("returned")
     \/ AuxGoes("edge_text")
  /\ UNCHANGED <<aFn, aCalls>>
  /\ UNCHANGED nonAux

\* generateEdgeTTS: edge-tts --text
EdgeText ==
  /\ apc = "edge_text"
  /\ \E how \in {"returned", "failed"} : AuxEnds(how)
  /\ UNCHANGED <<aFn, aCalls, aux>>
  /\ UNCHANGED nonAux

\* generateWithSystemTTS: throws at once off macOS; `say -o <temp>.aiff`
\* writes the file, or fails, having written it or not, and the catch
\* unlinks it and rethrows
SystemSay ==
  /\ apc = "sys_say"
  /\ \/ /\ platform = "darwin"
        /\ aux' = aux \cup {"aiff"}
        /\ AuxGoes("sys_check")
     \/ UNCHANGED aux /\ AuxEnds("threw")
  /\ UNCHANGED <<aFn, aCalls>>
  /\ UNCHANGED nonAux

\* generateWithSystemTTS: checkFFmpeg; without ffmpeg the .aiff file is
\* read, unlinked and returned
SystemCheck ==
  /\ apc = "sys_check"
  /\ \/ UNCHANGED aux /\ AuxGoes("sys_ffmpeg")
     \/ aux' = aux \ {"aiff"} /\ AuxEnds("returned")
  /\ UNCHANGED <<aFn, aCalls>>
  /\ UNCHANGED nonAux

\* generateWithSystemTTS: ffmpeg -i <.aiff> <temp>.mp3, then the .aiff file
\* is unlinked; a failed or timed-out run has written the .mp3 file or not,
\* and the catch unlinks the .aiff file only
SystemFfmpeg ==
  /\ apc = "sys_ffmpeg"
  /\ \/ /\ aux' = (aux \ {"aiff"}) \cup {"temp_mp3"}
        /\ AuxGoes("sys_read")
     \/ /\ aux' \in {aux \ {"aiff"}, (aux \ {"aiff"}) \cup {"temp_mp3"}}
        /\ AuxEnds("threw")
  /\ UNCHANGED <<aFn, aCalls>>
  /\ UNCHANGED nonAux

\* generateWithSystemTTS: fs.readFile(mp3Path), fs.unlink(mp3Path), return;
\* the catch of a failed read unlinks the .aiff file only
SystemRead ==
  /\ apc = "sys_read"
  /\ \/ aux' = aux \ {"temp_mp3"} /\ AuxEnds("returned")
     \/ UNCHANGED aux /\ AuxEnds("threw")
  /\ UNCHANGED <<aFn, aCalls>>
  /\ UNCHANGED nonAux

\* createValidMP3: checkFFmpeg; without ffmpeg createMinimalMP3 is returned
ValidCheck ==
  /\ apc = "valid_check"
  /\ \/ AuxGoes("valid_ffmpeg")
     \/ AuxEnds("returned")
  /\ UNCHANGED <<aFn, aCalls, aux>>
  /\ UNCHANGED nonAux

\* createValidMP3: ffmpeg writes the temporary .mp3 file, which is read and
\* unlinked; a failed or timed-out run has written the file or not, and the
\* catch returns createMinimalMP3(5) without unlinking anything
ValidFfmpeg ==
  /\ apc = "valid_ffmpeg"
  /\ aux' \in {aux, aux \cup {"temp_mp3"}}
  /\ AuxEnds("returned")
  /\ UNCHANGED <<aFn, aCalls>>
  /\ UNCHANGED nonAux

\* ------------------------------------------------------ cleanTextForTTS
\* the characters of the texts cleaned here; "danda" stands for U+0964
CleanAlphabet == {"a", "A", " ", ".", "-", "1", "danda"}

Digits == {"0", "1", "2", "3", "4", "5", "6", "7", "8", "9"}

Upper == {"A"}

Punct == {".", ",", "!", "?", ";", ":"}

\* s without its longest prefix of characters of S
RECURSIVE SkipWhile(_, _)
SkipWhile(s, S) ==
  IF s # <<>> /\ Head(s) \in S THEN SkipWhile(Tail(s), S) ELSE s

\* .replace(/^\d+\.\s*/gm, "") on a text of one line
RemoveNumbering(s) ==
  LET r == SkipWhile(s, Digits)
  IN IF r # s /\ r # <<>> /\ Head(r) = "."
     THEN SkipWhile(Tail(r), {" "})
     ELSE s

\* .replace(/^[-*]\s*/gm, "") on a text of one line
RemoveBullet(s) ==
  IF s # <<>> /\ Head(s) \in {"-", "*"} THEN SkipWhile(Tail(s), {" "}) ELSE s

\* .replace(/\s+/g, " ")
RECURSIVE CollapseSpaces(_)
CollapseSpaces(s) ==
  IF s = <<>> THEN <<>>
  ELSE IF Head(s) = " " THEN <<" ">> \o CollapseSpaces(SkipWhile(s, {" "}))
  ELSE <<Head(s)>> \o CollapseSpaces(Tail(s))

\* .replace(/danda\s*danda/g, "danda")
RECURSIVE MergeDandas(_)
MergeDandas(s) ==
  IF s = <<>> THEN <<>>
  ELSE LET r == SkipWhile(Tail(s), {" "})
       IN IF Head(s) = "danda" /\ r # <<>> /\ Head(r) = "danda"
          THEN <<"danda">> \o MergeDandas(Tail(r))
          ELSE <<Head(s)>> \o MergeDandas(Tail(s))

\* .replace(/\s*danda\s*/g, "danda ")
RECURSIVE SpaceDandas(_)
SpaceDandas(s) ==
  IF s = <<>> THEN <<>>
  ELSE LET r == SkipWhile(s, {" "})
       IN IF r # <<>> /\ Head(r) = "danda"
          THEN <<"danda", " ">> \o SpaceDandas(SkipWhile(Tail(r), {" "}))
          ELSE <<Head(s)>> \o SpaceDandas(Tail(s))

\* .replace(/([.!?])\s*([A-Z])/g, "$1 $2")
RECURSIVE SpaceBeforeCapital(_)
SpaceBeforeCapital(s) ==
  IF s = <<>> THEN <<>>
  ELSE LET r == SkipWhile(Tail(s), {" "})
       IN IF Head(s) \in Terminators /\ r # <<>> /\ Head(r) \in Upper
          THEN <<Head(s), " ", Head(r)>> \o SpaceBeforeCapital(Tail(r))
          ELSE <<Head(s)>> \o SpaceBeforeCapital(Tail(s))

\* .replace(/([.!?])\s*$/g, "$1")
TrimAfterTerminator(s) ==
  LET keep == {i \in 1..Len(s) : s[i] # " "}
  IN IF keep # {} /\ s[Max(keep)] \in Terminators
     THEN SubSeq(s, 1, Max(keep))
     ELSE s

\* .replace(/\.{2,}/g, ".")
RECURSIVE CollapseDots(_)
CollapseDots(s) ==
  IF s = <<>> THEN <<>>
  ELSE IF Head(s) = "." THEN <<".">> \o CollapseDots(SkipWhile(s, {"."}))
  ELSE <<Head(s)>> \o CollapseDots(Tail(s))

\* .replace(/\s+([.,!?;:])/g, "$1")
RECURSIVE NoSpaceBeforePunct(_)
NoSpaceBeforePunct(s) ==
  IF s = <<>> THEN <<>>
  ELSE LET r == SkipWhile(s, {" "})
       IN IF Head(s) = " " /\ r # <<>> /\ Head(r) \in Punct
          THEN <<Head(r)>> \o NoSpaceBeforePunct(Tail(r))
          ELSE <<Head(s)>> \o NoSpaceBeforePunct(Tail(s))

\* .replace(/([.,!?;:])\s+/g, "$1 ")
RECURSIVE OneSpaceAfterPunct(_)
OneSpaceAfterPunct(s) ==
  IF s = <<>> THEN <<>>
  ELSE IF Head(s) \in Punct /\ Tail(s) # <<>> /\ Head(Tail(s)) = " "
  THEN <<Head(s), " ">> \o OneSpaceAfterPunct(SkipWhile(Tail(s), {" "}))
  ELSE <<Head(s)>> \o OneSpaceAfterPunct(Tail(s))

\* .replace(/\.\s*/g, ". "), and the same for "," "!" "?"
RECURSIVE PauseAfter(_, _)
PauseAfter(s, c) ==
  IF s = <<>> THEN <<>>
  ELSE IF Head(s) = c THEN <<c, " ">> \o PauseAfter(SkipWhile(Tail(s), {" "}), c)
  ELSE <<Head(s)>> \o PauseAfter(Tail(s), c)

\* .replace(/[^\x00-\x7F]/g, "") for English; the class kept for Nepali
\* holds every character of CleanAlphabet
KeepLanguageChars(s, language) ==
  IF language = "ne" THEN s ELSE SelectSeq(s, LAMBDA c : c # "danda")

\* cleanTextForTTS of cloudinaryAudioService.js. The replacements for tags,
\* markdown, URLs, e-mail addresses and word counts need characters that
\* CleanAlphabet does not hold and leave these texts as they are
cleanTextCloud(text, language) ==
  LET base == Trim(CollapseSpaces(RemoveBullet(RemoveNumbering(text))))
      byLang == IF language = "ne" THEN SpaceDandas(MergeDandas(base)) ELSE base
  IN TrimAfterTerminator(SpaceBeforeCapital(byLang))

\* enhanceForStorytelling: the replacement of capitalised names returns its
\* match, and the phrases (Welcome to, Our, Finally, like, ...) need letters
\* that CleanAlphabet does not hold; the last replacement is the one that
\* acts here
enhanceForStorytelling(text) == SpaceBeforeCapital(text)

\* cleanTextForTTS of part_000; these texts are under maxLength (1500 or
\* 2000 characters), so the cut at a sentence boundary is not taken
cleanTextLocal(text, language) ==
  LET a == RemoveBullet(RemoveNumbering(text))
      b == OneSpaceAfterPunct(NoSpaceBeforePunct(CollapseDots(a)))
      c == PauseAfter(PauseAfter(PauseAfter(PauseAfter(b, "."), ","), "!"), "?")
      d == KeepLanguageChars(Trim(CollapseSpaces(c)), language)
  IN Trim(enhanceForStorytelling(d))

cleanTextForTTS(impl, text, language) ==
  IF impl = "cloud" THEN cleanTextCloud(text, language)
  ELSE cleanTextLocal(text, language)

\* the texts over CleanAlphabet of at most n characters
RECURSIVE CleanTexts(_)
CleanTexts(n) ==
  IF n = 0 THEN {<<>>}
  ELSE LET shorter == CleanTexts(n - 1)
       IN shorter \cup {Append(t, c) : t \in {x \in shorter : Len(x) = n - 1},
                                        c \in CleanAlphabet}

CleanIdle ==
  /\ clText = <<>>
  /\ clLang = "en"
  /\ clImpl = "none"
  /\ clOut = <<>>

CleanInit ==
  /\ clText \in CleanTexts(MaxCleanLen)
  /\ clLang \in {"en", "ne"}
  /\ clImpl \in {"cloud", "local"}
  /\ clOut = <<>>

\* cleanTextForTTS is applied to the text
CleanOnce ==
  /\ clImpl # "none"
  /\ clOut = <<>>
  /\ clOut' = <<cleanTextForTTS(clImpl, clText, clLang)>>
  /\ UNCHANGED <<clText, clLang, clImpl>>
  /\ UNCHANGED nonClean

\* cleanTextForTTS is applied to its own result, as generateTikTokVoice
\* does with the text generateAudio cleaned
CleanAgain ==
  /\ Len(clOut) = 1
  /\ clOut' = Append(clOut, cleanTextForTTS(clImpl, clOut[1], clLang))
  /\ UNCHANGED <<clText, clLang, clImpl>>
  /\ UNCHANGED nonClean

\* ---------------------------------- cleanTextForTTS, the cut at maxLength
\* maxLength = language === "ne" ? 1500 : 2000
MaxLengthNe == 1500

MaxLengthEn == 2000

MaxLengthOf(language) == IF language = "ne" THEN MaxLengthNe ELSE MaxLengthEn

\* A text of this length is held as a sequence of runs: [ch, n] stands for
\* n times the character ch ("a" is a lower-case letter), and the run whose
\* ch is "Thus" for the four letters of that word
Run(ch, n) == [ch |-> ch, n |-> n]

WordChars == {"a", "Thus"}

RunWidth(r) == IF r.ch = "Thus" THEN 4 * r.n ELSE r.n

\* text.length
RECURSIVE TextLength(_)
TextLength(t) ==
  IF t = <<>> THEN 0 ELSE RunWidth(Head(t)) + TextLength(Tail(t))

\* t without its leading runs of characters of S
RECURSIVE SkipRuns(_, _)
SkipRuns(t, S) ==
  IF t # <<>> /\ Head(t).ch \in S THEN SkipRuns(Tail(t), S) ELSE t

\* cleanText.split(/[.!?]+/), cur being the piece collected so far
RECURSIVE SplitRuns(_, _)
SplitRuns(t, cur) ==
  IF t = <<>> THEN <<cur>>
  ELSE IF Head(t).ch \in Terminators
  THEN <<cur>> \o SplitRuns(SkipRuns(t, Terminators), <<>>)
  ELSE SplitRuns(Tail(t), Append(cur, Head(t)))

\* t without its trailing runs of spaces
RECURSIVE TrimRunsEnd(_)
TrimRunsEnd(t) ==
  IF t # <<>> /\ t[Len(t)].ch = " " THEN TrimRunsEnd(SubSeq(t, 1, Len(t) - 1)) ELSE t

\* String.prototype.trim
TrimRuns(t) == TrimRunsEnd(SkipRuns(t, {" "}))

\* cleanText.substring(0, k)
RECURSIVE SubstringRuns(_, _)
SubstringRuns(t, k) ==
  IF t = <<>> \/ k = 0 THEN <<>>
  ELSE IF RunWidth(Head(t)) <= k
  THEN <<Head(t)>> \o SubstringRuns(Tail(t), k - RunWidth(Head(t)))
  ELSE <<Run("a", k)>>

\* the loop over the sentences: a sentence is taken while result, the
\* sentence and ". " together fit in maxLength, and the first one that does
\* not fit ends the loop
RECURSIVE KeepSentences(_, _, _)
KeepSentences(sentences, result, maxLength) ==
  IF sentences = <<>> THEN result
  ELSE IF TextLength(result) + TextLength(Head(sentences)) + 2 <= maxLength
  THEN KeepSentences(Tail(sentences),
                     result \o TrimRuns(Head(sentences)) \o <<Run(".", 1), Run(" ", 1)>>,
                     maxLength)
  ELSE result

\* if (cleanText.length > maxLength) { ... }
CutAtMaxLength(t, maxLength) ==
  IF TextLength(t) > maxLength
  THEN LET result == TrimRuns(KeepSentences(SplitRuns(t, <<>>), <<>>, maxLength))
       IN IF TextLength(result) > 0 THEN result ELSE SubstringRuns(t, maxLength)
  ELSE t

\* .replace(/\b(Therefore|Thus|In conclusion|Finally|Overall)\b/gi, ", $1,");
\* before is the run in front of t
RECURSIVE PauseAroundThus(_, _)
PauseAroundThus(t, before) ==
  IF t = <<>> THEN <<>>
  ELSE LET r == Head(t)
           bounded == /\ r.ch = "Thus" /\ r.n = 1
                      /\ (before = <<>> \/ before[1].ch \notin WordChars)
                      /\ (Len(t) = 1 \/ t[2].ch \notin WordChars)
       IN (IF bounded THEN <<Run(",", 1), Run(" ", 1), r, Run(",", 1)>> ELSE <<r>>)
          \o PauseAroundThus(Tail(t), <<r>>)

\* .replace(/([.!?])\s*([A-Z])/g, "$1 $2"); the capital letter of these
\* texts is the first letter of "Thus"
RECURSIVE SpaceBeforeCapitalRuns(_)
SpaceBeforeCapitalRuns(t) ==
  IF t = <<>> THEN <<>>
  ELSE LET rest == SkipRuns(Tail(t), {" "})
       IN IF Head(t).ch \in Terminators /\ rest # <<>> /\ Head(rest).ch = "Thus"
          THEN <<Head(t), Run(" ", 1)>> \o SpaceBeforeCapitalRuns(rest)
          ELSE <<Head(t)>> \o SpaceBeforeCapitalRuns(Tail(t))

\* enhanceForStorytelling on runs; its other phrases need words these texts
\* do not hold
enhanceRuns(t) == SpaceBeforeCapitalRuns(PauseAroundThus(t, <<>>))

\* cleanTextForTTS of part_000 from the computation of maxLength on
cleanTextFromCut(t, language) ==
  TrimRuns(enhanceRuns(CutAtMaxLength(t, MaxLengthOf(language))))

\* the numbers of letters of a sentence: short ones, and ones that with
\* their neighbours come next to 1500 or 2000 characters
RunLens == {1, 700, 1493, 1993, 2001}

\* a sentence as the earlier replacements leave it: an optional "Thus ",
\* letters, and one terminator
SentenceRuns ==
  {(IF thus THEN <<Run("Thus", 1), Run(" ", 1)>> ELSE <<>>) \o <<Run("a", n), Run(term, 1)>> :
     thus \in BOOLEAN, n \in RunLens, term \in {".", "!"}}

\* the texts of at most n sentences, one space after every terminator but
\* the last
RECURSIVE TruncTexts(_)
TruncTexts(n) ==
  IF n = 1 THEN SentenceRuns
  ELSE LET shorter == TruncTexts(n - 1)
       IN shorter \cup {t \o <<Run(" ", 1)>> \o st : t \in shorter, st \in SentenceRuns}

TruncIdle ==
  /\ trText = <<>>
  /\ trLang = "en"
  /\ trOut = <<>>

TruncInit ==
  /\ trText \in TruncTexts(MaxTruncSentences)
  /\ trLang \in {"en", "ne"}
  /\ trOut = <<>>

\* cleanTextForTTS runs from the computation of maxLength to its return
TruncReturn ==
  /\ trText # <<>>
  /\ trOut = <<>>
  /\ trOut' = <<cleanTextFromCut(trText, trLang)>>
  /\ UNCHANGED <<trText, trLang>>
  /\ UNCHANGED nonTrunc

\* ------------------------------ audio quota (audioController.js, part_005)
QReqs == {"q1", "q2"}

Plans == {"free", "pro", "pro_plus"}

\* the monthlyLimits updateSubscription sets for a plan (the schema default
\* is the free plan's)
PlanLimit(plan) ==
  CASE plan = "free" -> 2
    [] plan = "pro" -> 50
    [] plan = "pro_plus" -> 999999

\* a variant whose comparison lets a user at the limit through
canGenerateAudioAtLimit(u, t) ==
  IF u.dev THEN TRUE
  ELSE IF u.status # "active" THEN FALSE
  ELSE IF u.expiry # <<>> /\ t > u.expiry[1] THEN FALSE
  ELSE IF u.plan = "pro_plus" THEN TRUE
  ELSE u.usage <= u.limit

\* userSchema.methods.canGenerateAudio, at instant t
canGenerateAudio(u, t) ==
  IF u.dev THEN TRUE
  ELSE IF u.status # "active" THEN FALSE
  ELSE IF u.expiry # <<>> /\ t > u.expiry[1] THEN FALSE
  ELSE IF u.plan = "pro_plus" THEN TRUE
  ELSE u.usage < u.limit

Users ==
  {[dev |-> d, plan |-> p, status |-> st, usage |-> PlanLimit(p) - h,
    limit |-> PlanLimit(p), expiry |-> IF p = "free" THEN <<>> ELSE <<ExpiryAt>>] :
     d \in BOOLEAN, p \in Plans, st \in {"active", "cancelled"}, h \in 0..MaxHeadroom}

QuotaIdle ==
  /\ dbUser = CHOOSE u \in Users : ~u.dev /\ u.plan = "free" /\ u.status = "active"
                                   /\ u.usage = u.limit
  /\ usage0 = dbUser.usage
  /\ now = 0
  /\ qpc = [q \in QReqs |-> "new"]
  /\ hasToken = [q \in QReqs |-> FALSE]
  /\ contentOk = [q \in QReqs |-> FALSE]
  /\ reqUser = [q \in QReqs |-> <<>>]
  /\ qStatus = [q \in QReqs |-> 0]
  /\ svcCalls = [q \in QReqs |-> 0]
  /\ saved = [q \in QReqs |-> FALSE]
  /\ usageCurrent = [q \in QReqs |-> 0]

QuotaInit ==
  /\ dbUser \in Users
  /\ usage0 = dbUser.usage
  /\ now = 0
  /\ qpc = [q \in QReqs |-> "new"]
  /\ hasToken = [q \in QReqs |-> FALSE]
  /\ contentOk = [q \in QReqs |-> FALSE]
  /\ reqUser = [q \in QReqs |-> <<>>]
  /\ qStatus = [q \in QReqs |-> 0]
  /\ svcCalls = [q \in QReqs |-> 0]
  /\ saved = [q \in QReqs |-> FALSE]
  /\ usageCurrent = [q \in QReqs |-> 0]

\* res.status(code).json(...)
Respond(q, code) ==
  /\ qStatus' = [qStatus EXCEPT ![q] = code]
  /\ qpc' = [qpc EXCEPT ![q] = "done"]

\* optionalAuth: with a valid token req.user is the document read from the
\* database now; without one the request goes on with no user
optionalAuth(q, token, valid) ==
  /\ qpc[q] = "new"
  /\ hasToken' = [hasToken EXCEPT ![q] = token]
  /\ contentOk' = [contentOk EXCEPT ![q] = valid]
  /\ reqUser' = [reqUser EXCEPT ![q] = IF token THEN <<dbUser>> ELSE <<>>]
  /\ qpc' = [qpc EXCEPT ![q] = "controller"]
  /\ UNCHANGED <<dbUser, usage0, now, qStatus, svcCalls, saved, usageCurrent>>
  /\ UNCHANGED nonQuota

\* the controller up to its first await: the validations (400), the quota
\* check (403), then the call of audioService.generateAudio
ControllerEntry(q) ==
  /\ qpc[q] = "controller"
  /\ IF ~contentOk[q]
     THEN /\ Respond(q, 400)
          /\ UNCHANGED svcCalls
     ELSE IF reqUser[q] # <<>> /\ ~canGenerateAudio(reqUser[q][1], now)
     THEN /\ Respond(q, 403)
          /\ UNCHANGED svcCalls
     ELSE /\ svcCalls' = [svcCalls EXCEPT ![q] = @ + 1]
          /\ qpc' = [qpc EXCEPT ![q] = "generating"]
          /\ UNCHANGED qStatus
  /\ UNCHANGED <<dbUser, usage0, now, hasToken, contentOk, reqUser, saved, usageCurrent>>
  /\ UNCHANGED nonQuota

\* audioService.generateAudio returns, or throws into the catch (500)
ServiceSettles(q) ==
  /\ qpc[q] = "generating"
  /\ \/ /\ qpc' = [qpc EXCEPT ![q] = "saving"]
        /\ UNCHANGED qStatus
     \/ Respond(q, 500)
  /\ UNCHANGED <<dbUser, usage0, now, hasToken, contentOk, reqUser, svcCalls, saved,
                 usageCurrent>>
  /\ UNCHANGED nonQuota

\* audioGeneration.save(); an anonymous request is answered right after it
SaveRecord(q) ==
  /\ qpc[q] = "saving"
  /\ \/ /\ saved' = [saved EXCEPT ![q] = TRUE]
        /\ IF reqUser[q] # <<>>
           THEN /\ qpc' = [qpc EXCEPT ![q] = "incrementing"]
                /\ UNCHANGED qStatus
           ELSE Respond(q, 200)
     \/ /\ Respond(q, 500)
        /\ UNCHANGED saved
  /\ UNCHANGED <<dbUser, usage0, now, hasToken, contentOk, reqUser, svcCalls,
                 usageCurrent>>
  /\ UNCHANGED nonQuota

\* userSchema.methods.incrementAudioUsage on the request's own copy: the
\* copy's count goes up by one and save() stores that count
incrementAudioUsage(q) ==
  LET count == reqUser[q][1].usage + 1
  IN /\ reqUser' = [reqUser EXCEPT ![q] = <<[@[1] EXCEPT !.usage = count]>>]
     /\ dbUser' = [dbUser EXCEPT !.usage = count]

\* the await of incrementAudioUsage, then res.json with usage.current =
\* req.user.subscription.usageCount.audio + 1; a failing save() ends in 500
IncrementAndRespond(q) ==
  /\ qpc[q] = "incrementing"
  /\ \/ /\ incrementAudioUsage(q)
        /\ usageCurrent' = [usageCurrent EXCEPT ![q] = reqUser'[q][1].usage + 1]
        /\ Respond(q, 200)
     \/ /\ reqUser' = [reqUser EXCEPT ![q] = <<[@[1] EXCEPT !.usage = @ + 1]>>]
        /\ Respond(q, 500)
        /\ UNCHANGED <<dbUser, usageCurrent>>
  /\ UNCHANGED <<usage0, now, hasToken, contentOk, svcCalls, saved>>
  /\ UNCHANGED nonQuota

\* time passes
Tick ==
  /\ now < MaxTime
  /\ now' = now + 1
  /\ UNCHANGED <<dbUser, usage0, qpc, hasToken, contentOk, reqUser, qStatus,
                 svcCalls, saved, usageCurrent>>
  /\ UNCHANGED nonQuota

QuotaStep(q) ==
  \/ \E token \in BOOLEAN, valid \in BOOLEAN : optionalAuth(q, token, valid)
  \/ ControllerEntry(q)
  \/ ServiceSettles(q)
  \/ SaveRecord(q)
  \/ IncrementAndRespond(q)

\* ------------- subscription lifecycle (part_005, the three controllers)
\* expiryDate.setMonth(expiryDate.getMonth() + 1): the clock counts months
Month == 1

\* userSchema.methods.canGenerateContent, at instant t
canGenerateContent(u, t) ==
  IF u.dev THEN TRUE
  ELSE IF u.status # "active" THEN FALSE
  ELSE IF u.expiry # <<>> /\ t > u.expiry[1] THEN FALSE
  ELSE IF u.plan = "pro_plus" THEN TRUE
  ELSE u.content < u.climit

\* userSchema.methods.updateSubscription at instant t, for a user who is
\* not the developer: plan, status, both limits and expiryDate are set,
\* usageCount and resetDate are left as they are
updateSubscription(u, plan, t) ==
  [u EXCEPT !.plan = plan,
            !.status = "active",
            !.climit = PlanLimit(plan),
            !.limit = PlanLimit(plan),
            !.expiry = IF plan = "free" THEN <<>> ELSE <<t + Month>>]

\* the users of SubSpec: registered at instant 0 (resetDate one month
\* ahead), on any plan since then, with at most MaxHeadroom generations of
\* each kind left
SubUsers ==
  {[dev |-> FALSE, plan |-> p, status |-> "active",
    content |-> PlanLimit(p) - hc, climit |-> PlanLimit(p),
    usage |-> PlanLimit(p) - ha, limit |-> PlanLimit(p),
    expiry |-> IF p = "free" THEN <<>> ELSE <<Month>>,
    resetDate |-> Month] :
     p \in Plans, hc \in 0..MaxHeadroom, ha \in 0..MaxHeadroom}

SubIdle ==
  /\ sUser = CHOOSE u \in SubUsers : u.plan = "free" /\ u.content = u.climit
                                      /\ u.usage = u.limit
  /\ sNow = 0
  /\ sLast = [route |-> "none", code |-> 0]
  /\ sTurn = 0
  /\ sGrants = 0

SubInit ==
  /\ sUser \in SubUsers
  /\ sNow = 0
  /\ sLast = [route |-> "none", code |-> 0]
  /\ sTurn = 0
  /\ sGrants = 0

\* res.status(code).json(...) of a request to the route
SubRespond(route, code) ==
  /\ sLast' = [route |-> route, code |-> code]
  /\ sTurn' = 1 - sTurn

\* POST /generate-content with a valid token: checkUsageLimit (429), then
\* generateContent: validation (400), AIService.generateContent (503 or
\* 500), contentRecord.save (500), incrementContentUsage, 200
ContentGenerate ==
  /\ \E outcome \in {"invalid", "ai_fails", "save_fails", "ok"} :
       IF ~canGenerateContent(sUser, sNow)
       THEN /\ SubRespond("generate-content", 429)
            /\ UNCHANGED <<sUser, sGrants>>
       ELSE IF outcome = "invalid"
       THEN /\ SubRespond("generate-content", 400)
            /\ UNCHANGED <<sUser, sGrants>>
       ELSE IF outcome = "ai_fails"
       THEN /\ SubRespond("generate-content", 503)
            /\ UNCHANGED <<sUser, sGrants>>
       ELSE IF outcome = "save_fails"
       THEN /\ SubRespond("generate-content", 500)
            /\ UNCHANGED <<sUser, sGrants>>
       ELSE /\ sGrants < MaxGrants
            /\ sUser' = [sUser EXCEPT !.content = @ + 1]
            /\ sGrants' = sGrants + 1
            /\ SubRespond("generate-content", 200)
  /\ UNCHANGED sNow
  /\ UNCHANGED nonSub

\* POST /modify with a valid token: authenticate, then modifyContent:
\* the two required fields (400), AIService.generateModifiedContent (500),
\* $inc of usageCount.content, 200
ContentModify ==
  /\ \E outcome \in {"invalid", "ai_fails", "ok"} :
       IF outcome = "invalid"
       THEN /\ SubRespond("modify", 400)
            /\ UNCHANGED <<sUser, sGrants>>
       ELSE IF outcome = "ai_fails"
       THEN /\ SubRespond("modify", 500)
            /\ UNCHANGED <<sUser, sGrants>>
       ELSE /\ sGrants < MaxGrants
            /\ sUser' = [sUser EXCEPT !.content = @ + 1]
            /\ sGrants' = sGrants + 1
            /\ SubRespond("modify", 200)
  /\ UNCHANGED sNow
  /\ UNCHANGED nonSub

\* POST /generate of the audio routes with a valid token, served alone:
\* validation (400), canGenerateAudio (403), audioService.generateAudio
\* and audioGeneration.save (500), incrementAudioUsage, 200
AudioGenerate ==
  /\ \E outcome \in {"invalid", "fails", "ok"} :
       IF outcome = "invalid"
       THEN /\ SubRespond("generate", 400)
            /\ UNCHANGED <<sUser, sGrants>>
       ELSE IF ~canGenerateAudio(sUser, sNow)
       THEN /\ SubRespond("generate", 403)
            /\ UNCHANGED <<sUser, sGrants>>
       ELSE IF outcome = "fails"
       THEN /\ SubRespond("generate", 500)
            /\ UNCHANGED <<sUser, sGrants>>
       ELSE /\ sGrants < MaxGrants
            /\ sUser' = [sUser EXCEPT !.usage = @ + 1]
            /\ sGrants' = sGrants + 1
            /\ SubRespond("generate", 200)
  /\ UNCHANGED sNow
  /\ UNCHANGED nonSub

\* POST /upgrade with a valid token and one of the three plans
upgradePlan ==
  /\ \E plan \in Plans : sUser' = updateSubscription(sUser, plan, sNow)
  /\ SubRespond("upgrade", 200)
  /\ UNCHANGED <<sNow, sGrants>>
  /\ UNCHANGED nonSub

\* POST /cancel with a valid token: status becomes "cancelled" and the
\* document is saved
cancelSubscription ==
  /\ sUser' = [sUser EXCEPT !.status = "cancelled"]
  /\ SubRespond("cancel", 200)
  /\ UNCHANGED <<sNow, sGrants>>
  /\ UNCHANGED nonSub

\* a month passes
SubTick ==
  /\ sNow < MaxTime
  /\ sNow' = sNow + 1
  /\ UNCHANGED <<sUser, sLast, sTurn, sGrants>>
  /\ UNCHANGED nonSub

\* ------------------------------------- KeepAliveService (keepAliveService.js)
\* cron expression "*/10 * * * *"
EveryTenMinutes(h, m) == m % 10 = 0

\* cron expression "*/5 9-21 * * *"
PeakEveryFive(h, m) == h \in 9..21 /\ m % 5 = 0

\* the task's cron expression matches the instant
Matches(task, h, m) ==
  IF task.cron = "every10" THEN EveryTenMinutes(h, m) ELSE PeakEveryFive(h, m)

\* the constructor: not running, no task; the clock is at midnight
KeepInit ==
  /\ isRunning = FALSE
  /\ scheduledTask = <<>>
  /\ activeTasks = {}
  /\ tasksCreated = 0
  /\ utcHour = 0
  /\ utcMinute = 0
  /\ pinged = FALSE

KeepIdle == KeepInit

\* start(): returns at once when running; else schedules the two tasks,
\* keeps the first one's handle, sets isRunning and pings once
start ==
  /\ IF isRunning
     THEN UNCHANGED <<isRunning, scheduledTask, activeTasks, tasksCreated, pinged>>
     ELSE /\ tasksCreated < 2 * MaxStarts
          /\ activeTasks' = activeTasks \cup {[id |-> tasksCreated + 1, cron |-> "every10"],
                                              [id |-> tasksCreated + 2, cron |-> "peak5"]}
          /\ tasksCreated' = tasksCreated + 2
          /\ scheduledTask' = <<tasksCreated + 1>>
          /\ isRunning' = TRUE
          /\ pinged' = TRUE
  /\ UNCHANGED <<utcHour, utcMinute>>
  /\ UNCHANGED nonKeep

\* stop(): destroys the task whose handle is kept, clears the handle and
\* isRunning. With a node-cron whose tasks have no destroy method the call
\* throws there and stop() changes nothing
stop ==
  /\ \/ /\ activeTasks' = IF scheduledTask # <<>>
                            THEN {t \in activeTasks : t.id # scheduledTask[1]}
                            ELSE activeTasks
        /\ scheduledTask' = <<>>
        /\ isRunning' = FALSE
        /\ pinged' = FALSE
     \/ /\ scheduledTask # <<>>
        /\ UNCHANGED <<activeTasks, scheduledTask, isRunning, pinged>>
  /\ UNCHANGED <<tasksCreated, utcHour, utcMinute>>
  /\ UNCHANGED nonKeep

\* five minutes pass; every active task whose expression matches the new
\* instant calls pingHealth
KeepTick ==
  LET m == (utcMinute + 5) % 60
      h == IF m = 0 THEN (utcHour + 1) % 24 ELSE utcHour
  IN /\ utcMinute' = m
     /\ utcHour' = h
     /\ pinged' = (pinged \/ \E t \in activeTasks : Matches(t, h, m))
     /\ UNCHANGED <<isRunning, scheduledTask, activeTasks, tasksCreated>>
     /\ UNCHANGED nonKeep

\* ---------------------------------------------------------- specifications
LocalIdle == LocalInit /\ platform = "linux"

\* the chunker called on every small text
ChunkNext == SplitCall

ChunkSpecInit == ChunkInit /\ LocalIdle /\ CloudInit /\ QuotaIdle /\ WavIdle /\ WebIdle /\ PreIdle /\ AuxIdle /\ CleanIdle /\ TruncIdle /\ SubIdle /\ KeepIdle

ChunkSpec == ChunkSpecInit /\ [][ChunkNext]_vars

\* the local-file service serving two concurrent requests
Init == ChunkIdle /\ LocalInit /\ CloudInit /\ QuotaIdle /\ WavIdle /\ WebIdle /\ PreIdle /\ AuxIdle /\ CleanIdle /\ TruncIdle /\ SubIdle /\ KeepIdle

Next == \E r \in Reqs : LocalStep(r)

Spec == Init /\ [][Next]_vars

\* both orchestrators, each serving one request; every await settles
OrchNext == CloudNext \/ LocalStep("r1")

OrchSpec == Init /\ [][OrchNext]_vars /\ WF_vars(OrchNext)

\* the controller serving two concurrent requests of one user
QuotaNext == Tick \/ \E q \in QReqs : QuotaStep(q)

QuotaSpecInit == ChunkIdle /\ LocalIdle /\ CloudInit /\ QuotaInit /\ WavIdle /\ WebIdle /\ PreIdle /\ AuxIdle /\ CleanIdle /\ TruncIdle /\ SubIdle /\ KeepIdle

QuotaSpec == QuotaSpecInit /\ [][QuotaNext]_vars

\* createSilentWav on every duration its callers can pass
WavNext == PlaceholderWav \/ AdvancedWav \/ RecreateWav \/ DirectWav

WavSpecInit == ChunkIdle /\ LocalIdle /\ CloudInit /\ QuotaIdle /\ WavInit /\ WebIdle /\ PreIdle /\ AuxIdle /\ CleanIdle /\ TruncIdle /\ SubIdle /\ KeepIdle

WavSpec == WavSpecInit /\ [][WavNext]_vars

\* generateEnhancedWebTTS, one call, on either platform
WebNext ==
  \/ generateEnhancedWebTTSCall
  \/ ResponsiveVoice
  \/ TtsApi
  \/ GoogleEntry
  \/ NodeGtts
  \/ WebGoogle
  \/ SayExits
  \/ ConvertExits
  \/ MvExits
  \/ EspeakExits
  \/ Backoff

WebSpecInit == ChunkIdle /\ LocalInit /\ CloudInit /\ QuotaIdle /\ WavIdle /\ WebInit /\ PreIdle /\ AuxIdle /\ CleanIdle /\ TruncIdle /\ SubIdle /\ KeepIdle

WebSpec == WebSpecInit /\ [][WebNext]_vars

\* generateTikTokVoice of the second class, one call
PreNext ==
  \/ PreCall
  \/ PreRecorded
  \/ PreWebTTS
  \/ PreSystemTTS
  \/ PrePlaceholder
  \/ PreUpload

PreSpecInit ==
  ChunkIdle /\ LocalIdle /\ CloudInit /\ QuotaIdle /\ WavIdle /\ WebIdle /\ PreInit
  /\ AuxIdle /\ CleanIdle /\ TruncIdle /\ SubIdle /\ KeepIdle

PreSpec == PreSpecInit /\ [][PreNext]_vars

\* one strategy attempt, on either platform
AuxNext ==
  \/ AuxCall
  \/ CloudEspeak
  \/ FestivalWrite
  \/ Festival
  \/ CloudSay
  \/ CloudConvert
  \/ CloudMv
  \/ CloudWeb
  \/ EdgeWrite
  \/ EdgeFile
  \/ EdgeText
  \/ SystemSay
  \/ SystemCheck
  \/ SystemFfmpeg
  \/ SystemRead
  \/ ValidCheck
  \/ ValidFfmpeg

AuxSpecInit ==
  ChunkIdle /\ LocalInit /\ CloudInit /\ QuotaIdle /\ WavIdle /\ WebIdle /\ PreIdle
  /\ AuxInit /\ CleanIdle /\ TruncIdle /\ SubIdle /\ KeepIdle

AuxSpec == AuxSpecInit /\ [][AuxNext]_vars

\* cleanTextForTTS applied twice to one text
CleanNext == CleanOnce \/ CleanAgain

CleanSpecInit ==
  ChunkIdle /\ LocalIdle /\ CloudInit /\ QuotaIdle /\ WavIdle /\ WebIdle /\ PreIdle
  /\ AuxIdle /\ CleanInit /\ TruncIdle /\ SubIdle /\ KeepIdle

CleanSpec == CleanSpecInit /\ [][CleanNext]_vars

\* cleanTextForTTS of part_000 on texts around maxLength
TruncNext == TruncReturn

TruncSpecInit ==
  ChunkIdle /\ LocalIdle /\ CloudInit /\ QuotaIdle /\ WavIdle /\ WebIdle /\ PreIdle
  /\ AuxIdle /\ CleanIdle /\ TruncInit /\ SubIdle /\ KeepIdle

TruncSpec == TruncSpecInit /\ [][TruncNext]_vars

\* one user's requests served one after the other while the months pass;
\* the user goes on sending generation requests, plan changes and
\* cancellations are up to the user
SubRequests == ContentGenerate \/ ContentModify \/ AudioGenerate

SubNext == SubRequests \/ upgradePlan \/ cancelSubscription \/ SubTick

SubSpecInit ==
  ChunkIdle /\ LocalIdle /\ CloudInit /\ QuotaIdle /\ WavIdle /\ WebIdle /\ PreIdle
  /\ AuxIdle /\ CleanIdle /\ TruncIdle /\ SubInit /\ KeepIdle

SubSpec ==
  SubSpecInit /\ [][SubNext]_vars /\ WF_vars(SubTick) /\ WF_vars(AudioGenerate)
  /\ WF_vars(ContentGenerate)

\* the keep-alive service started and stopped while the day goes by
KeepNext == start \/ stop \/ KeepTick

KeepSpecInit ==
  ChunkIdle /\ LocalIdle /\ CloudInit /\ QuotaIdle /\ WavIdle /\ WebIdle /\ PreIdle
  /\ AuxIdle /\ CleanIdle /\ TruncIdle /\ SubIdle /\ KeepInit

KeepSpec == KeepSpecInit /\ [][KeepNext]_vars

\* generateAudio of the cloud service, one call
ValidNext ==
  \/ cloudGenerateAudio
  \/ \E i \in 1..Len(Chain) : TryStrategy(i)
  \/ VerifyFile
  \/ Upload
  \/ Finish

ValidSpec == Init /\ [][ValidNext]_vars

\* generateTikTokVoice of the first and of the second class, one call each
UploadNext == CloudNext \/ PreNext

UploadSpecInit ==
  ChunkIdle /\ LocalIdle /\ CloudInit /\ QuotaIdle /\ WavIdle /\ WebIdle /\ PreInit
  /\ AuxIdle /\ CleanIdle /\ TruncIdle /\ SubIdle /\ KeepIdle

UploadSpec == UploadSpecInit /\ [][UploadNext]_vars

\* --------------------------------------------------------- chunker claims
\* the trimmed non-blank sentences of the chunker's input
Sentences(text) ==
  LET ss == SelectNonBlank(SplitSentences(text))
  IN [j \in 1..Len(ss) |-> Trim(ss[j])]

WordsFit(text, maxLength) ==
  \A j \in 1..Len(Sentences(text)) :
    LET ws == SplitWords(Sentences(text)[j])
    IN \A k \in 1..Len(ws) : Len(ws[k]) <= maxLength

\* C9: for a text whose words are each at most maxLength long, every chunk
\* returned by splitTextIntoChunks(text, maxLength) is at most maxLength
\* characters long.
C9_ChunksWithinMax ==
  (chPc = "split" /\ WordsFit(chText, chMax)) =>
    \A i \in 1..Len(chChunks) : Len(chChunks[i]) <= chMax

\* C10: a sentence longer than maxLength that has several words is split by
\* word-level packing wherever it stands in the text, so no returned chunk is
\* that whole sentence (followed by the period the chunker appends).
C10_LongSentenceSplit ==
  chPc = "split" =>
    \A j \in 1..Len(Sentences(chText)) :
      LET s == Sentences(chText)[j]
      IN (Len(s) > chMax /\ \E k \in 1..Len(s) : s[k] = " ") =>
           \A i \in 1..Len(chChunks) : chChunks[i] # s \o <<".">>

\* Array.prototype.filter, keeping the non-empty pieces
RECURSIVE SelectNonEmpty(_)
SelectNonEmpty(ss) ==
  IF ss = <<>> THEN <<>>
  ELSE IF Head(ss) # <<>>
       THEN <<Head(ss)>> \o SelectNonEmpty(Tail(ss))
       ELSE SelectNonEmpty(Tail(ss))

\* the words of a sequence of strings, string by string
RECURSIVE WordsOfAll(_)
WordsOfAll(ss) ==
  IF ss = <<>> THEN <<>>
  ELSE SelectNonEmpty(SplitWords(Head(ss))) \o WordsOfAll(Tail(ss))

\* the words of a text: those of its sentences, in order
WordsOf(text) == WordsOfAll(Sentences(text))

\* the words read off the chunks in order
RECURSIVE ChunkWords(_)
ChunkWords(chunks) ==
  IF chunks = <<>> THEN <<>>
  ELSE WordsOf(Head(chunks)) \o ChunkWords(Tail(chunks))

\* how many entries of a sequence equal x
Occurrences(x, seq) == Cardinality({i \in 1..Len(seq) : seq[i] = x})

\* C11 (first half): the words read off the returned chunks in order are the
\* words of the input's sentences in order: none dropped, duplicated,
\* truncated or reordered.
C11_WordsPreserved ==
  chPc = "split" => ChunkWords(chChunks) = WordsOf(chText)

\* C11: the words read off the returned chunks in order are the words of the
\* input's sentences in order, and every word longer than maxLength is
\* emitted whole as a chunk of its own (the word followed by the period the
\* chunker appends), once per occurrence.
C11_NoContentLost ==
  chPc = "split" =>
    /\ ChunkWords(chChunks) = WordsOf(chText)
    /\ \A k \in 1..Len(WordsOf(chText)) :
         LET w == WordsOf(chText)[k]
         IN Len(w) > chMax =>
              Occurrences(w \o <<".">>, chChunks) >= Occurrences(w, WordsOf(chText))

\* C12: splitTextIntoChunks returns at least one chunk for every non-empty
\* text, a text of nothing but terminators and blanks included.
C12_AtLeastOneChunk ==
  (chPc = "split" /\ chText # <<>>) => Len(chChunks) >= 1

\* a text of terminators and blanks only came back as its own single chunk
C12_Witness ==
  /\ chPc = "split"
  /\ chText # <<>>
  /\ Sentences(chText) = <<>>
  /\ chChunks = <<chText>>

\* ------------------------------------------------------ orchestrator claims
LocalChain == <<"tiktok", "system", "silent">>

\* the calls made so far follow the chain from its first entry, and every
\* call but the last one failed
InPriorityOrder(calls, chain) ==
  /\ Len(calls) <= Len(chain)
  /\ \A i \in 1..Len(calls) :
       /\ calls[i].name = chain[i]
       /\ i < Len(calls) => ~calls[i].ok

C2_NonEmptyArtifact ==
  /\ (cOutcome = "ok" /\ handedSize # <<>>) => handedSize[1] > 0
  /\ \A r \in Reqs : lOutcome[r] = "ok" => fileSize[r] > 0

OwnSegments(r, buf) ==
  {j \in 1..Len(buf) : buf[j].src = "tiktok" /\ buf[j].req = r}

C5_OrderPreserved ==
  \A r \in Reqs :
    /\ \A j \in 1..Len(audioBuffers[r]) :
         /\ Len(audioBuffers[r][j]) = 1
         /\ audioBuffers[r][j][1].req = r
         /\ audioBuffers[r][j][1].idx = j - 1
    /\ (lpc[r] \in {"write", "done"} /\ failedAt[r] = 0 /\ nChunks[r] > 1) =>
         audioData[r] = BufferConcat(audioBuffers[r])

\* the request that takes a step
Acts(r) == lpc'[r] # lpc[r] \/ li'[r] # li[r]

\* C6: a chunk file, the manifest or the combined output that one request
\* wrote and still uses is not overwritten or deleted by the other request.
C6_NoInterference ==
  [][\A r \in Reqs :
       (lpc[r] \in {"write_chunk", "write_concat", "ffmpeg", "read"}
        /\ \E o \in Reqs \ {r} : Acts(o))
       => /\ \A i \in 0..(Len(audioBuffers[r]) - 1) :
               (chunkFiles[i] = <<audioBuffers[r][i + 1]>>) => chunkFiles'[i] = chunkFiles[i]
          /\ (lpc[r] \in {"ffmpeg", "read"}) => concatFile' = concatFile
          /\ (lpc[r] = "read") => combinedFile' = combinedFile]_vars

\* ------------------------------------------------------- silent WAV claims
\* C13: for a whole number D of seconds, the file createSilentWav writes has
\* a data section of exactly 44100 * 2 * D bytes, all zero, and is exactly
\* 44 + dataSize bytes long.
C13_WavSize ==
  (wavPc = "written" /\ wavDur[1].den = 1) =>
    LET D == wavDur[1].num
        f == wavFile[1]
    IN /\ f.dataLength = 44100 * 2 * D
       /\ f.dataFill = 0
       /\ f.size = 44 + f.dataLength

\* a caller's clamp produced the whole duration: createPlaceholderAudio
\* wrote its five-minute WAV
C13_Witness ==
  /\ wavPc = "written"
  /\ wavCaller = "createPlaceholderAudio"
  /\ wavDur = <<Seconds(300, 1)>>
  /\ wavFile[1].size = 44 + 44100 * 2 * 300

\* C14: the header createSilentWav writes is consistent for every duration
\* its callers can pass: RIFF chunk size 36 + dataSize, fmt size 16, format
\* 1, one channel, 44100 Hz, byte rate 88200, block align 2, 16 bits, data
\* chunk size = dataSize = numSamples * blockAlign, and both size fields are
\* below 2^32, so that no write of the header is out of range.
C14_HeaderConsistent ==
  /\ wavPc # "range_error"
  /\ wavPc = "written" =>
       LET f == wavFile[1]
       IN /\ f.riffChunkSize = 36 + f.dataLength
          /\ f.fmtChunkSize = 16
          /\ f.audioFormat = 1
          /\ f.numChannels = 1
          /\ f.sampleRate = 44100
          /\ f.byteRate = 88200
          /\ f.blockAlign = 2
          /\ f.bitsPerSample = 16
          /\ f.dataChunkSize = f.dataLength
          /\ f.dataLength = f.numSamples * f.blockAlign
          /\ f.riffChunkSize \div 65536 < 65536
          /\ f.dataChunkSize \div 65536 < 65536

\* the longest WAV the callers can ask for (a 10000-character text at the
\* empty-file re-creation) was written
C14_Witness ==
  /\ wavPc = "written"
  /\ wavCaller = "generateTikTokVoice"
  /\ wavArg = MaxTextChars
  /\ wavFile[1].dataChunkSize > 58000000

\* C15: on every path that reaches createSilentWav, for every text of 10 to
\* 10000 characters, the duration passed is between 10 and 300 seconds.
C15_DurationClamped ==
  (wavPc # "input" /\ wavCaller # "direct") =>
    LET d == wavDur[1]
    IN 10 * d.den <= d.num /\ d.num <= 300 * d.den

\* ------------------------------------------------------------ quota claims
\* the responses that granted an audio generation to the authenticated user
Granted == {q \in QReqs : qStatus[q] = 200 /\ reqUser[q] # <<>>}

\* C7: the generations granted to a user who is neither the developer nor on
\* pro_plus never exceed the monthly limit, counting those already used.
C7_WithinMonthlyLimit ==
  (~dbUser.dev /\ dbUser.plan # "pro_plus") =>
    usage0 + Cardinality(Granted) <= dbUser.limit

\* the claim's own reading of "may not generate", at instant t
Blocked(u, t) ==
  /\ ~u.dev
  /\ u.plan # "pro_plus"
  /\ \/ u.usage >= u.limit
     \/ u.status # "active"
     \/ (u.expiry # <<>> /\ t > u.expiry[1])

GoogleEnds == {i \in 1..Len(wLog) : wLog[i].name = "generateGoogleTTS"}

\* the positions of the log where generateGoogleTTS threw
GoogleFailures == {i \in GoogleEnds : ~wLog[i].ok}

\* how many times generateGoogleTTS had thrown up to position i
FailuresUpTo(i) == Cardinality({j \in GoogleFailures : j <= i})

\* C16: generateGoogleTTS returns normally only with an audio file of at
\* least 1000 bytes at outputPath, whichever inner method produced it
C16_ReturnsOnlyWithAudio ==
  (wLog # <<>> /\ wLog[Len(wLog)] = Ev("generateGoogleTTS", TRUE, 0))
    => (wFile # <<>> /\ wFile[1] >= 1000)

\* C17: the retry method calls generateGoogleTTS at most three times and
\* stops at the first success; it waits 1000 ms after the first failure,
\* 2000 ms after the second and nothing after the third, upon which
\* generateEnhancedWebTTS throws; it waits at no other moment
C17_RetryBackoff ==
  /\ Cardinality(GoogleEnds) <= 3
  /\ \A i \in GoogleEnds : wLog[i].ok => (i = Len(wLog) /\ wOutcome = "ok")
  /\ \A i \in GoogleFailures :
       IF FailuresUpTo(i) < 3
       THEN IF i = Len(wLog)
            THEN wpc = "backoff" /\ wOutcome = "none"
            ELSE wLog[i + 1] = Ev("wait", TRUE, 1000 * FailuresUpTo(i))
       ELSE i = Len(wLog) /\ wpc = "done" /\ wOutcome = "error"
  /\ \A i \in 1..Len(wLog) :
       wLog[i].name = "wait" => (i > 1 /\ (i - 1) \in GoogleFailures)
  /\ wOutcome = "error" => Cardinality(GoogleFailures) = 3

\* three attempts that reached the network failed, with both waits between
C17_Witness ==
  /\ wOutcome = "error"
  /\ wLen >= 3
  /\ Cardinality(GoogleFailures) = 3
  /\ \E i, j \in 1..Len(wLog) :
       /\ i < j
       /\ wLog[i] = Ev("wait", TRUE, 1000)
       /\ wLog[j] = Ev("wait", TRUE, 2000)

\* the attempts of the log that go to the Google Translate endpoint
GoogleEndpoint == {"node_gtts", "web_google"}

\* C18: between a failed attempt against a remote endpoint and the next
\* attempt against it, the pipeline waits a non-zero delay
C18_WaitsBetweenAttempts ==
  \A i, j \in 1..Len(wLog) :
    ( /\ i < j
      /\ wLog[i].name \in GoogleEndpoint
      /\ ~wLog[i].ok
      /\ wLog[j].name \in GoogleEndpoint )
    => \E k \in (i + 1)..(j - 1) : wLog[k].name = "wait" /\ wLog[k].ms > 0

\* C20: every child process the pipeline awaits is bounded by an explicit
\* timeout
C20_ExecHasTimeout ==
  wExec # <<>> => wExec[1].timeout # <<>>


\* ------------------------------------------------------ pre-recorded claims
\* C19: generateFromPreRecorded is invoked only after the live strategies,
\* web TTS and system TTS, have both failed
C19_PreRecordedAfterLive ==
  \A i \in 1..Len(pTried) :
    pTried[i].name = "pre-recorded" =>
      \A live \in {"web_tts", "system_tts"} :
        \E j \in 1..(i - 1) : pTried[j] = [name |-> live, ok |-> FALSE]

\* C19, second part: with no .mp3 file in narrator-audio
\* generateFromPreRecorded fails and the next strategy is tried
C19_EmptyDirContinues ==
  ( /\ pTried # <<>>
    /\ (narratorDir = <<>> \/ \A f \in narratorDir[1] : ~IsMp3(f)) )
  => /\ pTried[1] = [name |-> "pre-recorded", ok |-> FALSE]
     /\ pMethod # "pre-recorded"
     /\ (Len(pTried) = 1 => ppc = "web_tts")


\* --------------------------------------------- combineAudioBuffers claims
\* the positions of a request inside combineAudioBuffers
CombinePcs == {"combine", "mkdir", "write_chunk", "write_concat", "ffmpeg", "read",
               "unlink_chunk", "unlink_concat", "unlink_out", "rmdir"}

\* C21: once combineAudioBuffers has returned, none of the temporary files
\* it created (chunk_<i>.mp3, concat.txt, combined.mp3) is left on disk,
\* whether the ffmpeg concat succeeded or failed
C21_TempFilesRemoved ==
  (\A r \in Reqs : lpc[r] \notin CombinePcs) => TempDirEmpty

\* what one step of request r shows when combineAudioBuffers returns
\* without having read combined.mp3
FallbackReturn(r) ==
  /\ lpc[r] \in CombinePcs \ {"rmdir"}
  /\ lpc'[r] \notin CombinePcs

\* C22: combineAudioBuffers never throws to its caller: without ffmpeg, and
\* when a step of the ffmpeg concat path fails, it returns the raw
\* concatenation of the input buffers in their order; a single input
\* buffer is returned unchanged
C22_FallbackIsRawConcat ==
  [][\A r \in Reqs :
       /\ (lpc[r] \in CombinePcs /\ lpc'[r] \notin CombinePcs)
            => /\ lpc'[r] = "write"
               /\ tried'[r] = Append(tried[r], Call("tiktok", TRUE))
               /\ audioBuffers'[r] = audioBuffers[r]
       /\ FallbackReturn(r)
            => audioData'[r] = BufferConcat(audioBuffers[r])
       /\ (lpc[r] = "tiktok" /\ lpc'[r] = "write")
            => /\ Len(audioBuffers'[r]) = 1
               /\ audioData'[r] = audioBuffers'[r][1]]_vars

\* the ffmpeg run of r1 failed after its files were written, alone on the
\* machine, and the raw concatenation of its two buffers was returned
C22_Witness ==
  /\ lpc["r1"] = "write"
  /\ lpc["r2"] = "idle"
  /\ Len(audioBuffers["r1"]) = 2
  /\ concatFile # <<>>
  /\ audioData["r1"] = audioBuffers["r1"][1] \o audioBuffers["r1"][2]


\* ---------------------------------------------- upload and cleanup claims
\* C23: generateTikTokVoice deletes the local temporary file only after
\* cloudinary.uploader.upload returned successfully for it; when the upload
\* failed the request never deletes the file
C23_DeleteOnlyAfterUpload ==
  [][/\ (cFile # <<>> /\ cFile' = <<>>)
          => (uploadResult # <<>> /\ uploadResult[1].url = "cloudinary")
     /\ (pFile # <<>> /\ pFile' = <<>>) => pOutcome' = "ok"
     /\ (uploadResult' # <<>> /\ uploadResult'[1].url = "file") => cFile' = cFile
     /\ pOutcome' = "error" => pFile' = pFile]_vars

\* both variants ended on a failed upload with their temporary file in place
C23_Witness ==
  /\ cpc = "done"
  /\ uploadResult # <<>>
  /\ uploadResult[1].url = "file"
  /\ cFile # <<>>
  /\ ppc = "done"
  /\ pOutcome = "error"
  /\ pFile # <<>>

\* C24: when the upload fails after a successful synthesis,
\* generateTikTokVoice throws or returns a file:// reference to the local
\* audio file, and that file still exists when the call returns
C24_LocalReferenceExists ==
  /\ (cpc = "done" /\ cOutcome = "ok" /\ uploadResult[1].url # "cloudinary")
       => /\ uploadResult[1].url = "file"
          /\ cFile # <<>>
          /\ handedSize = <<cFile[1].bytes>>
  /\ (ppc = "done" /\ pOutcome = "ok") => pFile = <<>>

\* the first variant returned a file:// reference after a failed upload
C24_Witness ==
  /\ cpc = "done"
  /\ cOutcome = "ok"
  /\ uploadResult[1].url = "file"
  /\ cFile # <<>>
  /\ cFile[1].bytes > 0

\* C25: an upload failure after a successful synthesis reaches the caller
\* of generateAudio as an error: no call returns success: true for a
\* request whose upload failed
C25_UploadFailurePropagates ==
  (cpc = "done" /\ cOutcome = "ok")
    => (uploadResult # <<>> /\ uploadResult[1].url = "cloudinary")

\* the values of metadata.method that name a placeholder generator
PlaceholderMethods == {"advanced_placeholder", "basic_placeholder"}

\* C28: when the audio of the request is the silent WAV of createSilentWav,
\* metadata.method names a placeholder method, not a real-TTS method
C28_MethodNamesPlaceholder ==
  (cpc \in {"verify", "upload", "cleanup", "done"} /\ cFile # <<>> /\ cFile[1].wav)
    => generationMethod \in PlaceholderMethods

\* C29: the size reported to the caller, metadata.fileSize, is the number
\* of bytes of the audio file produced for the request, on every path that
\* returns a result
C29_ReportedSize ==
  (cpc = "done" /\ cOutcome = "ok")
    => (handedSize # <<>> /\ uploadResult[1].bytes = handedSize[1])


\* ------------------------------------------------- auxiliary file claims
\* C26: every auxiliary temporary file a strategy attempt created (the
\* festival .txt file, the edge-tts .ssml file, the say .aiff file, the
\* temporary .mp3 file) is deleted by the time the attempt returns or throws
C26_AuxFilesRemoved ==
  apc = "done" => aux = {}


\* ----------------------------------------------------- validation claims
\* the text arguments generateAudio must reject
InvalidInput(in) ==
  in.kind # "string" \/ in.len < MinTextChars \/ in.len > MaxTextChars

\* C27: generateAudio fails fast on a text that is null, not a string, or
\* whose cleaned form is empty, under 10 or over 10000 characters: it
\* throws before any strategy is invoked, any file written, any upload made
C27_FailsFast ==
  (gaInput # <<>> /\ InvalidInput(gaInput[1]))
    => /\ cpc = "done"
       /\ cOutcome = "error"
       /\ cInvoked = <<>>
       /\ cFile = <<>>
       /\ uploadResult = <<>>
       /\ ~audioGenerated

\* a text of 10001 characters was rejected, and one of 9
C27_Witness ==
  /\ gaInput # <<>>
  /\ gaInput[1].kind = "string"
  /\ gaInput[1].len \in {MinTextChars - 1, MaxTextChars + 1}
  /\ cOutcome = "error"


\* ------------------------------------------------------- cleaner claims
\* C30: cleanTextForTTS is idempotent: cleaning a cleaned text again, in
\* the same language, gives the cleaned text, for the cleaner of part_000
\* and for the cleaner of cloudinaryAudioService.js
C30_Idempotent ==
  Len(clOut) = 2 => clOut[2] = clOut[1]


\* the letters and words of a text, in order
WordRuns(t) == SelectSeq(t, LAMBDA r : r.ch \in WordChars)

RECURSIVE JoinRuns(_)
JoinRuns(pieces) ==
  IF pieces = <<>> THEN <<>> ELSE Head(pieces) \o JoinRuns(Tail(pieces))

\* out holds the words of the first k sentences of in, whole, for some k
EndsAtSentenceBoundary(in, out) ==
  LET sentences == SplitRuns(in, <<>>)
  IN \E k \in 1..Len(sentences) :
       WordRuns(out) = WordRuns(JoinRuns(SubSeq(sentences, 1, k)))

\* C31: when the cleaned text exceeds the language cap (1500 characters for
\* ne, 2000 otherwise), the text cleanTextForTTS of part_000 returns ends at
\* a sentence boundary of the input and is no longer than the cap
C31_CutAtSentenceBoundary ==
  (trOut # <<>> /\ TextLength(trText) > MaxLengthOf(trLang)) =>
    /\ TextLength(trOut[1]) <= MaxLengthOf(trLang)
    /\ EndsAtSentenceBoundary(trText, trOut[1])


\* ------------------------------------------------ usage accounting claims
\* request q is answered in this step
Answered(q) == qStatus[q] = 0 /\ qStatus'[q] # 0

\* the stored count changes only in a step that answers a request 200 after
\* the service returned and the AudioGeneration record was saved
UsageChangesOnlyOnSuccess ==
  dbUser'.usage # dbUser.usage =>
    \E q \in QReqs : /\ Answered(q) /\ qStatus'[q] = 200
                      /\ svcCalls[q] = 1 /\ saved[q]

\* a step that answers an authenticated request 200 adds one to the stored
\* count, and a step that answers with an error leaves it as it is
AnswerMovesUsage ==
  \A q \in QReqs :
    Answered(q) =>
      IF qStatus'[q] = 200 /\ reqUser[q] # <<>>
      THEN dbUser'.usage = dbUser.usage + 1
      ELSE dbUser'.usage = dbUser.usage

\* C32: a request of the audio controller that ends in an error response
\* leaves the user's usageCount.audio unchanged; the count is incremented
\* only after synthesis succeeded and the AudioGeneration record was saved,
\* and by exactly 1 per successful request
C32_UsageCountedOncePerSuccess ==
  [][UsageChangesOnlyOnSuccess /\ AnswerMovesUsage]_vars


\* C33: in the success response of the audio controller for an authenticated
\* user, usage.current equals the user's usageCount.audio as stored after
\* that request
C33_UsageCurrentIsStoredCount ==
  [][\A q \in QReqs :
       (Answered(q) /\ qStatus'[q] = 200 /\ reqUser[q] # <<>>)
       => usageCurrent'[q] = dbUser'.usage]_vars


\* -------------------------------------------- subscription lifecycle claims
\* C34: for an authenticated user who is neither the developer nor on
\* pro_plus, usageCount.content never exceeds monthlyLimits.content after
\* any series of content requests and plan changes served one at a time
C34_ContentWithinLimit ==
  (~sUser.dev /\ sUser.plan # "pro_plus") => sUser.content <= sUser.climit

\* quota is left for both kinds of generation
HasQuotaLeft(u) ==
  u.plan = "pro_plus" \/ (u.content < u.climit /\ u.usage < u.limit)

\* C35: cancelling takes effect at the end of the period: after
\* cancelSubscription a user with remaining quota can generate content and
\* audio until expiryDate has passed, and cannot afterwards
C35_CancelAtPeriodEnd ==
  (sUser.status = "cancelled" /\ sUser.expiry # <<>> /\ HasQuotaLeft(sUser)) =>
    IF sNow > sUser.expiry[1]
    THEN ~canGenerateContent(sUser, sNow) /\ ~canGenerateAudio(sUser, sNow)
    ELSE canGenerateContent(sUser, sNow) /\ canGenerateAudio(sUser, sNow)

\* the user has used up the month's audio generations
AudioLimitReached ==
  ~sUser.dev /\ sUser.plan # "pro_plus" /\ sUser.usage >= sUser.limit

\* C36: the limits are monthly: a user rejected for reaching the monthly
\* limit is eventually allowed to generate again, the counts being reset to
\* 0 once resetDate is reached
C36_EventuallyAllowedAgain ==
  (sLast = [route |-> "generate", code |-> 403] /\ AudioLimitReached)
    ~> ~AudioLimitReached


\* ------------------------------------------------------- keep-alive claims
\* C37: after stop() returns no scheduled task of the service is active and
\* no health ping is issued until start() is called again; the number of
\* active scheduled tasks is 2 when isRunning is true and 0 when it is false
C37_TasksFollowIsRunning ==
  IF isRunning
  THEN Cardinality(activeTasks) = 2
  ELSE activeTasks = {} /\ ~pinged


\* ------------------------------------------------- undersized audio claim
\* if (audioBuffer.length < 100)
MinAudioLength == 100

\* C38: generateWithTikTokTTS of part_000 never returns audio shorter than
\* 100 bytes; it throws instead, so that generateAudio falls back to
\* system TTS
C38_NoUndersizedAudio ==
  [][\A r \in Reqs :
       tried'[r] = Append(tried[r], Call("tiktok", TRUE))
       => ByteLength(audioData'[r]) >= MinAudioLength]_vars

====
